---- MODULE Spec2Model ----
(***************************************************************************)
(* Verification model of the rag-bot repository.                           *)
(*                                                                         *)
(*   travel-assistant/backend/server.py      /chat and /chat/stream        *)
(*   travel-assistant/backend/tools/*        history store, LLM, search    *)
(*   rag-langraph-bot/app.py, chatbot.py     /chat, /chat/stream, the      *)
(*                                           RAGLangGraphBot workflow      *)
(*   rag-langraph-bot/cosmos_manager.py      CosmosDBManager               *)
(*   travel-assistant/backend/workflows      TravelAssistantWorkflow       *)
(*   rag-cosmos-bot/rag_bot.py               RAGChatBot.get_response       *)
(*                                                                         *)
(* A text is a sequence of atoms.  The atoms of a user message are its     *)
(* characters; an atom of a literal of the source may abbreviate a run of  *)
(* non-blank characters of that literal.  The empty string is <<>>.        *)
(***************************************************************************)
EXTENDS Integers, Sequences, FiniteSets, TLC

VARIABLES
    \* ---- the HTTP services (server.py, app.py) ----
    req,        \* req[r]: the request r as submitted (kind, session_id, message)
    pc,         \* pc[r]: the await / yield at which the handler of r is suspended
    loc,        \* loc[r]: the local variables of the handler of r
    trace,      \* trace[r]: collaborator calls made and elements delivered for r
    container,  \* the Cosmos DB container: a set of documents
    clock,      \* the wall clock read by datetime.now()
    live,       \* the request slots (graph slots) in use in this run
    tracing,    \* whether trace is recorded in this run
    msgs,       \* the messages callers submit in this run
    index,      \* the lists of document ids the search index finds for a query
    \* ---- TravelAssistantWorkflow (travel_workflow.py) ----
    current_session_id,  \* the class variable TravelAssistantWorkflow._current_session_id
    graphs,     \* graphs[g]: a compiled graph: its run state and position
    wf_store,   \* turns written by the store_history node
    llm,        \* the responses llm_with_tools may give in this run
    \* ---- RAGChatBot (rag_bot.py) ----
    setup_complete,  \* chatbot.setup_complete
    memory,     \* chatbot.memory.chat_memory.messages
    rag,        \* rag[c]: a get_response call: its position and locals
    \* ---- CheckpointManager (checkpoint_tool.py) ----
    checkpoints,  \* the Cosmos DB container of checkpoint documents
    cleanup     \* the cleanup_old_checkpoints call: its position and locals

httpVars == <<req, pc, loc, trace, container, clock, live, tracing, msgs, index>>
wfVars   == <<current_session_id, graphs, wf_store, llm>>
ragVars  == <<setup_complete, memory, rag>>
ckVars   == <<checkpoints, cleanup>>
vars     == <<req, pc, loc, trace, container, clock, live, tracing, msgs, index,
              current_session_id, graphs, wf_store, llm, setup_complete, memory, rag,
              checkpoints, cleanup>>

----------------------------------------------------------------------------
(* Bounds of the model *)

MaxFrags == 2     \* chunks an LLM stream produces before it must end
MaxClock == 1     \* wall-clock readings are 0..MaxClock
NumGraphs == 2    \* workflow graphs created by invoke_graph_workflow
MaxStored == 3    \* Turns the store holds from earlier turns when a run starts
MaxSessionTurns == 6  \* Turns one session holds from earlier turns
MaxAge == 1       \* how far back the timestamps of those Turns lie
MaxContent == 801 \* characters of the longest document content
MaxToolCalls == 4 \* tool calls one response of llm_with_tools carries
MaxTurns == 3     \* turns of the console loop of chatbot.py
MaxCheckpoints == 1003  \* checkpoint documents one thread holds
NumCalls == 2     \* get_response calls made on the RAGChatBot

\* the request slots: two requests may be in flight together
Reqs == {1, 2}

----------------------------------------------------------------------------
(* Text *)

Whitespace == {" ", "\t", "\n"}

RECURSIVE LStrip(_)
LStrip(s) == IF s # <<>> /\ Head(s) \in Whitespace THEN LStrip(Tail(s)) ELSE s

RECURSIVE RStrip(_)
RStrip(s) ==
    IF s # <<>> /\ s[Len(s)] \in Whitespace THEN RStrip(SubSeq(s, 1, Len(s) - 1)) ELSE s

\* str.strip()
Strip(s) == RStrip(LStrip(s))

LowerChar(c) ==
    CASE c = "H" -> "h"
      [] c = "P" -> "p"
      [] c = "T" -> "t"
      [] OTHER   -> c

\* str.lower()
Lower(s) == [i \in 1..Len(s) |-> LowerChar(s[i])]

\* `w in s` for strings: w occurs as a contiguous substring of s
Contains(s, w) ==
    \E i \in 1..(Len(s) - Len(w) + 1) : SubSeq(s, i, i + Len(w) - 1) = w

\* str.split(): the maximal runs of non-blank atoms
RECURSIVE SplitFrom(_, _, _)
SplitFrom(s, cur, acc) ==
    IF s = <<>>
    THEN IF cur = <<>> THEN acc ELSE Append(acc, cur)
    ELSE IF Head(s) \in Whitespace
         THEN SplitFrom(Tail(s), <<>>, IF cur = <<>> THEN acc ELSE Append(acc, cur))
         ELSE SplitFrom(Tail(s), Append(cur, Head(s)), acc)

Split(s) == SplitFrom(s, <<>>, <<>>)

\* the messages a caller submits
MsgEmpty == <<>>
MsgBlank == <<" ", " ">>
MsgHello == <<"H", "e", "l", "l", "o", "!">>
MsgParis == <<"P", "a", "r", "i", "s", "?">>

Messages == {MsgEmpty, MsgBlank, MsgHello, MsgParis}

\* the text an LLM call produces when it succeeds
LLMAnswer == <<"Visit", " ", "Paris">>

\* str(e) of the exception a failing collaborator raises
ExcText == <<"Connection", " ", "error">>

----------------------------------------------------------------------------
(* Values shared by the services *)

\* a request without session_id (None or "")
NoSession == 0

\* the session ids callers supply
SessionArgs == {NoSession, 1, 2}

\* str(uuid.uuid4()): the value drawn by the k-th uuid4() call of the handler
\* of request r, distinct from all others and from the ids callers supply
Uuid4(r, k) == 100 * k + r

\* "I apologize, but I encountered an error while processing your request.
\*  Please try again."
Apology ==
    <<"I apologize, but I encountered an error while processing your request.",
      " ", "Please try again.">>

Min(a, b) == IF a <= b THEN a ELSE b

Reverse(s) == [i \in 1..Len(s) |-> s[Len(s) + 1 - i]]

\* an entry of trace[r]
Ev(ev, ok, text) == [ev |-> ev, ok |-> ok, done |-> FALSE, text |-> text]

\* StreamChunk(content, done) as delivered to the caller
StreamChunk(content, done) == [ev |-> "chunk", ok |-> TRUE, done |-> done, text |-> content]

\* trace[r] extended by the entries evs (trace is a history variable)
Log(t, evs) == IF tracing THEN t \o evs ELSE t

NoReq == [kind |-> "none", session_id |-> NoSession, message |-> <<>>]

InitLoc ==
    [session_id |-> NoSession, conversation_history |-> <<>>, context |-> <<>>,
     response |-> <<>>, user_query |-> <<>>, search_results |-> <<>>,
     nchunks |-> 0, words |-> <<>>, timestamp |-> 0, limit |-> 0,
     conversation |-> <<>>, turns |-> 0, messages |-> <<>>]

----------------------------------------------------------------------------
(* The conversation store: ChatHistoryManager and CosmosDBManager *)

\* the document create_item() writes
TurnDoc(id, session_id, timestamp, user_message, assistant_response, search_results, type, origin) ==
    [id |-> id, session_id |-> session_id, timestamp |-> timestamp,
     user_message |-> user_message, assistant_response |-> assistant_response,
     search_results |-> search_results, type |-> type, origin |-> origin]

\* the types of the documents that hold a Turn
TurnTypes == {"conversation", "conversation_turn"}

\* a store_message that files a Turn under the session of the Turns already
\* stored instead of the session_id it is given
store_message_under_stored_session(c, id, session_id, timestamp, user_message, assistant_response, origin) ==
    c \cup {TurnDoc(id, IF c = {} THEN session_id
                        ELSE (CHOOSE d \in c : TRUE).session_id,
                    timestamp, user_message, assistant_response, <<>>,
                    "conversation", origin)}

\* ChatHistoryManager.store_message: the container after create_item
store_message(c, id, session_id, timestamp, user_message, assistant_response, origin) ==
    c \cup {TurnDoc(id, session_id, timestamp, user_message, assistant_response,
                    <<>>, "conversation", origin)}

\* CosmosDBManager.save_conversation: the container after create_item
save_conversation(c, id, session_id, timestamp, user_message, assistant_response, search_results, origin) ==
    c \cup {TurnDoc(id, session_id, timestamp, user_message, assistant_response,
                    search_results, "conversation_turn", origin)}

\* CosmosDBManager.save_session_metadata: upsert of the document session_<id>
save_session_metadata(c, session_id, timestamp, origin) ==
    {d \in c : ~(d.type = "session_metadata" /\ d.session_id = session_id)}
    \cup {TurnDoc(session_id, session_id, timestamp, <<>>, <<>>, <<>>,
                  "session_metadata", origin)}

\* the orders in which a query may list the documents of S:
\* ORDER BY c.timestamp DESC, documents of equal timestamp in any order
RECURSIVE OrderedDesc(_)
OrderedDesc(S) ==
    IF S = {} THEN {<<>>}
    ELSE UNION {{<<d>> \o f : f \in OrderedDesc(S \ {d})} :
                  d \in {x \in S : \A y \in S : x.timestamp >= y.timestamp}}

\* a get_conversation_history without items.reverse()
get_conversation_history_unreversed(c, session_id, limit, type) ==
    {SubSeq(f, 1, Min(limit, Len(f))) :
        f \in OrderedDesc({d \in c : d.session_id = session_id /\ d.type = type})}

\* SELECT * FROM c WHERE c.session_id = @session_id AND c.type = <type>
\* ORDER BY c.timestamp DESC OFFSET 0 LIMIT @limit, then items.reverse():
\* the lists get_conversation_history may return
get_conversation_history(c, session_id, limit, type) ==
    {Reverse(SubSeq(f, 1, Min(limit, Len(f)))) :
        f \in OrderedDesc({d \in c : d.session_id = session_id /\ d.type = type})}

----------------------------------------------------------------------------
(* travel-assistant/backend: the collaborators of server.py *)

\* outcomes of one call of the search backend
SearchOutcomes == {"fail", "empty", "found"}

\* DocumentManagementTool.semantic_search: the str it returns
semantic_search(outcome) ==
    IF outcome = "found"
    THEN <<"Title: Paris Guide", "\n", "The Louvre">>
    ELSE <<>>

\* server.py: context after
\*     search_results = await doc_tool.semantic_search(request.message)
\*     if search_results: context = f"Relevant travel information:\n{...}\n\n"
\* inside try / except Exception: context = "".  semantic_search is a plain
\* def returning str, so the await of its result raises TypeError.
server_context(search_results) ==
    LET awaitable == FALSE
    IN  IF ~awaitable THEN <<>>
        ELSE IF search_results # <<>>
             THEN <<"Relevant travel information:", "\n">> \o search_results
                  \o <<"\n", "\n">>
             ELSE <<>>

\* LLMTool.generate_response: the str returned, chain.ainvoke succeeding or raising
generate_response(ok) == IF ok THEN LLMAnswer ELSE Apology

\* the contents chain.astream may deliver in one chunk
StreamContents == {<<>>, <<"Paris">>}

----------------------------------------------------------------------------
(* server.py POST /chat (chat_endpoint) *)

\* the request arrives; the tools are built and the handler runs to
\* `await history_tool.get_conversation_history`, or a constructor raises
\* (ChatHistoryManager._initialize, LLMTool._initialize) and the handler
\* answers with HTTPException(500, "Error processing chat: ...")
chat_endpoint(r) ==
    /\ r \in live
    /\ pc[r] = "idle"
    /\ \E s \in SessionArgs, m \in msgs, ok \in BOOLEAN :
        /\ req' = [req EXCEPT ![r] = [kind |-> "chat", session_id |-> s, message |-> m]]
        /\ IF ok
           THEN /\ loc' = [loc EXCEPT ![r].session_id =
                               IF s # NoSession THEN s ELSE Uuid4(r, 1)]
                /\ pc' = [pc EXCEPT ![r] = "chat_history"]
                /\ UNCHANGED trace
           ELSE /\ trace' = [trace EXCEPT ![r] =
                               Log(@, <<Ev("exception", FALSE, ExcText),
                                        Ev("return", FALSE,
                                           <<"Error processing chat: ">> \o ExcText)>>)]
                /\ pc' = [pc EXCEPT ![r] = "done"]
                /\ UNCHANGED loc
    /\ UNCHANGED <<container, clock, live, tracing, msgs, index, wfVars, ragVars, ckVars>>

\* a chat_endpoint that reads its history with the default limit of
\* CosmosDBManager (10)
chat_get_history_ten(r) ==
    /\ pc[r] = "chat_history"
    /\ \E ok \in BOOLEAN, outcome \in SearchOutcomes,
          h \in get_conversation_history(container, loc[r].session_id, 10, "conversation") :
        /\ loc' = [loc EXCEPT ![r].conversation_history = IF ok THEN h ELSE <<>>,
                              ![r].context = server_context(semantic_search(outcome))]
        /\ trace' = [trace EXCEPT ![r] = Log(@, <<Ev("history", ok, <<>>),
                                               Ev("search", outcome # "fail",
                                                  semantic_search(outcome))>>)]
    /\ pc' = [pc EXCEPT ![r] = "chat_generate"]
    /\ UNCHANGED <<req, container, clock, live, tracing, msgs, index, wfVars, ragVars, ckVars>>

\* the history read completes or fails; the search runs; runs to
\* `await chain.ainvoke` inside generate_response
chat_get_history(r) ==
    /\ pc[r] = "chat_history"
    /\ \E ok \in BOOLEAN, outcome \in SearchOutcomes,
          h \in get_conversation_history(container, loc[r].session_id, 5, "conversation") :
        /\ loc' = [loc EXCEPT ![r].conversation_history = IF ok THEN h ELSE <<>>,
                              ![r].context = server_context(semantic_search(outcome))]
        /\ trace' = [trace EXCEPT ![r] = Log(@, <<Ev("history", ok, <<>>),
                                               Ev("search", outcome # "fail",
                                                  semantic_search(outcome))>>)]
    /\ pc' = [pc EXCEPT ![r] = "chat_generate"]
    /\ UNCHANGED <<req, container, clock, live, tracing, msgs, index, wfVars, ragVars, ckVars>>

\* generate_response returns; store_message builds message_doc with
\* datetime.now() and runs to `await self.container.create_item`
chat_generate_response(r) ==
    /\ pc[r] = "chat_generate"
    /\ \E ok \in BOOLEAN, now \in clock..MaxClock :
        /\ clock' = now
        /\ loc' = [loc EXCEPT ![r].response = generate_response(ok),
                              ![r].timestamp = now]
        /\ trace' = [trace EXCEPT ![r] = Log(@, <<Ev("llm", ok, <<>>)>>)]
    /\ pc' = [pc EXCEPT ![r] = "chat_store"]
    /\ UNCHANGED <<req, container, live, tracing, msgs, index, wfVars, ragVars, ckVars>>

\* create_item completes or raises (caught); ChatResponse is returned
chat_store_message(r) ==
    /\ pc[r] = "chat_store"
    /\ \E ok \in BOOLEAN :
        /\ container' = IF ok
                        THEN store_message(container, Uuid4(r, 3), loc[r].session_id,
                                           loc[r].timestamp, req[r].message,
                                           loc[r].response, r)
                        ELSE container
        /\ trace' = [trace EXCEPT ![r] = Log(@, <<Ev("store", ok, loc[r].response),
                                               Ev("return", TRUE, loc[r].response)>>)]
    /\ pc' = [pc EXCEPT ![r] = "done"]
    /\ loc' = [loc EXCEPT ![r] = InitLoc]
    /\ UNCHANGED <<req, clock, live, tracing, msgs, index, wfVars, ragVars, ckVars>>

----------------------------------------------------------------------------
(* server.py POST /chat/stream (generate_stream) *)

\* the request arrives; the tools are built and generate_stream runs to
\* `await history_tool.get_conversation_history`, or a constructor raises
\* and the outer except clause yields its error chunk
chat_stream_endpoint(r) ==
    /\ r \in live
    /\ pc[r] = "idle"
    /\ \E s \in SessionArgs, m \in msgs, ok \in BOOLEAN :
        /\ req' = [req EXCEPT ![r] = [kind |-> "stream", session_id |-> s, message |-> m]]
        /\ loc' = [loc EXCEPT ![r].session_id =
                        IF s # NoSession THEN s ELSE Uuid4(r, 1)]
        /\ trace' = [trace EXCEPT ![r] =
                        IF ok THEN @ ELSE Log(@, <<Ev("exception", FALSE, ExcText)>>)]
        /\ pc' = [pc EXCEPT ![r] = IF ok THEN "stream_history" ELSE "stream_yield_error"]
    /\ UNCHANGED <<container, clock, live, tracing, msgs, index, wfVars, ragVars, ckVars>>

\* the error chunk StreamChunk(f"Error: {str(e)}", done=True) of the outer
\* except clause is delivered and the generator ends
stream_error_chunk(r) ==
    /\ pc[r] = "stream_yield_error"
    /\ trace' = [trace EXCEPT ![r] =
                    Log(@, <<StreamChunk(<<"Error: ">> \o ExcText, TRUE)>>)]
    /\ pc' = [pc EXCEPT ![r] = "done"]
    /\ loc' = [loc EXCEPT ![r] = InitLoc]
    /\ UNCHANGED <<req, container, clock, live, tracing, msgs, index, wfVars, ragVars, ckVars>>

\* the history read completes or fails; the search runs; runs to the first
\* `async for chunk in chain.astream`
stream_get_history(r) ==
    /\ pc[r] = "stream_history"
    /\ \E ok \in BOOLEAN, outcome \in SearchOutcomes,
          h \in get_conversation_history(container, loc[r].session_id, 5, "conversation") :
        /\ loc' = [loc EXCEPT ![r].conversation_history = IF ok THEN h ELSE <<>>,
                              ![r].context = server_context(semantic_search(outcome))]
        /\ trace' = [trace EXCEPT ![r] = Log(@, <<Ev("history", ok, <<>>),
                                               Ev("search", outcome # "fail",
                                                  semantic_search(outcome))>>)]
    /\ pc' = [pc EXCEPT ![r] = "stream_llm"]
    /\ UNCHANGED <<req, container, clock, live, tracing, msgs, index, wfVars, ragVars, ckVars>>

\* a generate_stream that writes the Turn as the fragments arrive: each
\* chunk stores the response assembled so far
stream_chunk_storing(r) ==
    /\ pc[r] = "stream_llm"
    /\ loc[r].nchunks < MaxFrags
    /\ \E content \in StreamContents :
        /\ loc' = [loc EXCEPT ![r].nchunks = @ + 1,
                              ![r].response = @ \o content]
        /\ trace' = [trace EXCEPT ![r] =
                        IF content # <<>> THEN Log(@, <<StreamChunk(content, FALSE)>>) ELSE @]
        /\ container' = store_message({d \in container : d.origin # r}, Uuid4(r, 3),
                                      loc[r].session_id, clock, req[r].message,
                                      loc[r].response \o content, r)
    /\ UNCHANGED <<req, pc, clock, live, tracing, msgs, index, wfVars, ragVars, ckVars>>

\* chain.astream delivers a chunk: generate_streaming_response yields its
\* content if it is not empty, and generate_stream adds it to full_response
\* and yields StreamChunk(content, done=False)
stream_chunk(r) ==
    /\ pc[r] = "stream_llm"
    /\ loc[r].nchunks < MaxFrags
    /\ \E content \in StreamContents :
        /\ loc' = [loc EXCEPT ![r].nchunks = @ + 1,
                              ![r].response = @ \o content]
        /\ trace' = [trace EXCEPT ![r] =
                        IF content # <<>> THEN Log(@, <<StreamChunk(content, FALSE)>>) ELSE @]
    /\ UNCHANGED <<req, pc, container, clock, live, tracing, msgs, index, wfVars, ragVars, ckVars>>

\* chain.astream raises: generate_streaming_response yields the apology as
\* a last chunk and ends; the async for is exhausted and store_message
\* builds message_doc with datetime.now() and runs to
\* `await self.container.create_item`
stream_error(r) ==
    /\ pc[r] = "stream_llm"
    /\ \E now \in clock..MaxClock :
        /\ clock' = now
        /\ loc' = [loc EXCEPT ![r].response = @ \o Apology, ![r].timestamp = now]
    /\ trace' = [trace EXCEPT ![r] = Log(@, <<Ev("llm", FALSE, <<>>),
                                           StreamChunk(Apology, FALSE)>>)]
    /\ pc' = [pc EXCEPT ![r] = "stream_exhausted"]
    /\ UNCHANGED <<req, container, live, tracing, msgs, index, wfVars, ragVars, ckVars>>

\* chain.astream ends normally; the async for is exhausted and store_message
\* builds message_doc with datetime.now() and runs to
\* `await self.container.create_item`
stream_end(r) ==
    /\ pc[r] = "stream_llm"
    /\ \E now \in clock..MaxClock :
        /\ clock' = now
        /\ loc' = [loc EXCEPT ![r].timestamp = now]
    /\ trace' = [trace EXCEPT ![r] = Log(@, <<Ev("llm", TRUE, <<>>)>>)]
    /\ pc' = [pc EXCEPT ![r] = "stream_exhausted"]
    /\ UNCHANGED <<req, container, live, tracing, msgs, index, wfVars, ragVars, ckVars>>

\* create_item completes or raises (caught); the completion chunk is yielded
stream_store_message(r) ==
    /\ pc[r] = "stream_exhausted"
    /\ \E ok \in BOOLEAN :
        /\ container' = IF ok
                        THEN store_message(container, Uuid4(r, 3), loc[r].session_id,
                                           loc[r].timestamp, req[r].message,
                                           loc[r].response, r)
                        ELSE container
        /\ trace' = [trace EXCEPT ![r] = Log(@, <<Ev("store", ok, loc[r].response)>>)]
    /\ pc' = [pc EXCEPT ![r] = "stream_yield_done"]
    /\ UNCHANGED <<req, loc, clock, live, tracing, msgs, index, wfVars, ragVars, ckVars>>

\* a generate_stream whose completion chunk repeats the full response
stream_done_repeating(r) ==
    /\ pc[r] = "stream_yield_done"
    /\ trace' = [trace EXCEPT ![r] = Log(@, <<StreamChunk(loc[r].response, TRUE)>>)]
    /\ pc' = [pc EXCEPT ![r] = "done"]
    /\ loc' = [loc EXCEPT ![r] = InitLoc]
    /\ UNCHANGED <<req, container, clock, live, tracing, msgs, index, wfVars, ragVars, ckVars>>

\* the completion chunk StreamChunk("", done=True) is delivered
stream_done(r) ==
    /\ pc[r] = "stream_yield_done"
    /\ trace' = [trace EXCEPT ![r] = Log(@, <<StreamChunk(<<>>, TRUE)>>)]
    /\ pc' = [pc EXCEPT ![r] = "done"]
    /\ loc' = [loc EXCEPT ![r] = InitLoc]
    /\ UNCHANGED <<req, container, clock, live, tracing, msgs, index, wfVars, ragVars, ckVars>>

----------------------------------------------------------------------------
(* rag-langraph-bot/chatbot.py: DocumentSearchTool and RAGLangGraphBot *)

\* langchain_core.messages
HumanMessage(content) == [type |-> "human", content |-> content, tool_calls |-> 0]
AIMessage(content, tool_calls) == [type |-> "ai", content |-> content, tool_calls |-> tool_calls]
ToolMessage(content) == [type |-> "tool", content |-> content, tool_calls |-> 0]


\* outcomes of one call of the search backend; scores are in thousandths
BotSearchOutcomes == {"fail", "empty", "relevant", "irrelevant"}

\* top_k: int = 5
top_k == 5

\* a content of n characters
Chars(n) == [i \in 1..n |-> "x"]

\* the ids of documents with a short content, a content of exactly 800
\* characters and a longer one
IndexIds == {"doc2", "doc3", "doc4"}

\* the ids of up to top_k documents in the order of the search
ResultLists == UNION {[1..n -> IndexIds] : n \in 0..top_k}

\* the ids of documents scored at the 0.01 threshold, just above it and
\* at zero, and the result lists of one or two of them
ScoredIds == {"doc5", "doc6", "doc7"}
ScoredLists == UNION {[1..n -> ScoredIds] : n \in 1..2}


SearchDoc(score) ==
    [id |-> "doc1", title |-> <<"Paris Guide">>, content |-> <<"The Louvre">>,
     source |-> <<"paris.txt">>, score |-> score]

\* the document of the index with the given id
IndexDoc(id) ==
    CASE id = "doc1" -> SearchDoc(500)
      [] id = "doc2" -> [id |-> id, title |-> <<"Louvre">>, content |-> Chars(1),
                         source |-> <<"louvre.txt">>, score |-> 500]
      [] id = "doc3" -> [id |-> id, title |-> <<"Orsay">>, content |-> Chars(800),
                         source |-> <<"orsay.txt">>, score |-> 500]
      [] id = "doc4" -> [id |-> id, title |-> <<"Versailles">>,
                         content |-> Chars(MaxContent),
                         source |-> <<"versailles.txt">>, score |-> 500]
      [] id = "doc5" -> [SearchDoc(10) EXCEPT !.id = id]
      [] id = "doc6" -> [SearchDoc(11) EXCEPT !.id = id]
      [] id = "doc7" -> [SearchDoc(0) EXCEPT !.id = id]

\* formatted_results for the ids found
Hits(ids) == [i \in 1..Len(ids) |-> IndexDoc(ids[i])]

\* a search_documents without its except clause: a failure of the search
\* backend reaches the caller
search_documents_raising(outcome, hits) ==
    [raised  |-> outcome = "fail",
     results |-> CASE outcome = "relevant"   -> hits
                   [] outcome = "irrelevant" -> <<SearchDoc(5)>>
                   [] OTHER                  -> <<>>]

\* DocumentSearchTool.search_documents: formatted_results, or [] when the
\* embedding or the search call raises (except Exception: return [])
search_documents(outcome, hits) ==
    [raised  |-> FALSE,
     results |-> CASE outcome = "relevant"   -> hits
                   [] outcome = "irrelevant" -> <<SearchDoc(5)>>
                   [] OTHER                  -> <<>>]

\* sep.join(parts)
RECURSIVE Join(_, _)
Join(sep, parts) ==
    IF parts = <<>> THEN <<>>
    ELSE IF Len(parts) = 1 THEN parts[1]
    ELSE parts[1] \o sep \o Join(sep, Tail(parts))

\* content[:800] + ("..." if len(content) > 800 else "")
content_excerpt(content) ==
    IF Len(content) > 800 THEN SubSeq(content, 1, 800) \o <<".", ".", ".">> ELSE content

\* a _search_documents that renders every search result
build_context_unsliced(search_results) ==
    Join(<<"\n", "\n", "---", "\n", "\n">>,
         [i \in 1..Len(search_results) |->
            <<"Document: ">> \o search_results[i].title \o <<"\n", "Source: ">>
            \o search_results[i].source \o <<"\n", "Content: ">>
            \o content_excerpt(search_results[i].content)])

\* _search_documents: the context built from search_results[:4]
build_context(search_results) ==
    Join(<<"\n", "\n", "---", "\n", "\n">>,
         [i \in 1..Min(4, Len(search_results)) |->
            <<"Document: ">> \o search_results[i].title \o <<"\n", "Source: ">>
            \o search_results[i].source \o <<"\n", "Content: ">>
            \o content_excerpt(search_results[i].content)])

greeting_words ==
    << <<"h", "e", "l", "l", "o">>,
       <<"h", "i">>,
       <<"h", "e", "y">>,
       <<"g", "r", "e", "e", "t", "i", "n", "g", "s">>,
       <<"g", "o", "o", "d", " ", "m", "o", "r", "n", "i", "n", "g">>,
       <<"g", "o", "o", "d", " ", "a", "f", "t", "e", "r", "n", "o", "o", "n">>,
       <<"g", "o", "o", "d", " ", "e", "v", "e", "n", "i", "n", "g">> >>

\* any(word in query.lower() for word in greeting_words)
is_greeting(query) ==
    \E k \in 1..Len(greeting_words) : Contains(Lower(query), greeting_words[k])

GreetingResponse ==
    <<"Hello!", " ", "I'm your travel assistant specializing in European destinations,",
      " ", "How can I help you plan your next adventure?">>

NoResultsResponse(query) ==
    <<"I'd love to help you with", " ", "'">> \o query
    \o <<"'!", " ", "Could you try asking about one of these areas?">>

NotRelevantResponse(query) ==
    <<"I couldn't find very relevant information about", " ", "'">> \o query
    \o <<"'", " ", "in my travel guides.">>

\* relevant_results = [r for r in search_results if r.get("score", 0) > 0.01]
relevant_results(search_results) ==
    SelectSeq(search_results, LAMBDA d : d.score > 10)

\* a _generate_response that looks at the search results before the greeting
generate_branch_results_first(query, search_results) ==
    IF search_results = <<>> THEN "no_results"
    ELSE IF is_greeting(query) THEN "greeting"
    ELSE IF relevant_results(search_results) = <<>> THEN "not_relevant"
    ELSE "llm"


\* _generate_response: which of its four branches is taken
generate_branch(query, search_results) ==
    IF is_greeting(query) THEN "greeting"
    ELSE IF search_results = <<>> THEN "no_results"
    ELSE IF relevant_results(search_results) = <<>> THEN "not_relevant"
    ELSE "llm"

----------------------------------------------------------------------------
(* rag-langraph-bot/app.py POST /chat and POST /chat/stream; bot_instance *)
(* is the RAGLangGraphBot built by lifespan()                             *)

\* POST /chat arrives; runs to `await bot_instance.start_new_session()` or,
\* with a session id, into bot_instance.chat up to
\* `await self.cosmos_manager.setup_database_and_container()`
app_chat(r) ==
    /\ r \in live
    /\ pc[r] = "idle"
    /\ \E s \in SessionArgs, m \in msgs :
        /\ req' = [req EXCEPT ![r] = [kind |-> "app_chat", session_id |-> s, message |-> m]]
        /\ loc' = [loc EXCEPT ![r].session_id = s]
        /\ pc' = [pc EXCEPT ![r] = IF s = NoSession THEN "new_session" ELSE "bot_setup"]
    /\ UNCHANGED <<trace, container, clock, live, tracing, msgs, index, wfVars, ragVars, ckVars>>

\* POST /chat/stream arrives: stream_chat_response runs to
\* `await bot_instance.start_new_session()` or to `yield {'status': 'searching'}`
stream_chat_response(r) ==
    /\ r \in live
    /\ pc[r] = "idle"
    /\ \E s \in SessionArgs, m \in msgs :
        /\ req' = [req EXCEPT ![r] = [kind |-> "app_stream", session_id |-> s, message |-> m]]
        /\ loc' = [loc EXCEPT ![r].session_id = s]
        /\ pc' = [pc EXCEPT ![r] = IF s = NoSession THEN "new_session" ELSE "yield_searching"]
    /\ UNCHANGED <<trace, container, clock, live, tracing, msgs, index, wfVars, ragVars, ckVars>>

\* RAGLangGraphBot.start_new_session: a fresh id whose metadata document is
\* upserted; when the store raises, another fresh id is returned
start_new_session(r) ==
    /\ pc[r] = "new_session"
    /\ \E ok \in BOOLEAN, now \in clock..MaxClock :
        /\ clock' = now
        /\ loc' = [loc EXCEPT ![r].session_id =
                        IF ok THEN Uuid4(r, 1) ELSE Uuid4(r, 2)]
        /\ container' = IF ok
                        THEN save_session_metadata(container, Uuid4(r, 1), now, r)
                        ELSE container
        /\ trace' = [trace EXCEPT ![r] = Log(@, <<Ev("new_session", ok, <<>>)>>)]
    /\ pc' = [pc EXCEPT ![r] = CASE req[r].kind = "app_stream" -> "yield_session"
                                 [] req[r].kind = "console"    -> "input"
                                 [] OTHER                      -> "bot_setup"]
    /\ UNCHANGED <<req, live, tracing, msgs, index, wfVars, ragVars, ckVars>>

\* {'session_id': session_id} is delivered
stream_session_id(r) ==
    /\ pc[r] = "yield_session"
    /\ trace' = [trace EXCEPT ![r] = Log(@, <<Ev("session_id", TRUE, <<>>)>>)]
    /\ pc' = [pc EXCEPT ![r] = "yield_searching"]
    /\ UNCHANGED <<req, loc, container, clock, live, tracing, msgs, index, wfVars, ragVars, ckVars>>

\* {'status': 'searching'} is delivered; runs into bot_instance.chat
stream_searching(r) ==
    /\ pc[r] = "yield_searching"
    /\ trace' = [trace EXCEPT ![r] = Log(@, <<Ev("status", TRUE, <<"searching">>)>>)]
    /\ pc' = [pc EXCEPT ![r] = "bot_setup"]
    /\ UNCHANGED <<req, loc, container, clock, live, tracing, msgs, index, wfVars, ragVars, ckVars>>

----------------------------------------------------------------------------
(* RAGLangGraphBot.chat and the nodes of its workflow *)

\* messages = conversation_history or []
\* messages.append(HumanMessage(content=user_input))
\* what the list the caller passed holds afterwards: `or` yields the
\* caller's list itself unless it is empty
history_after_append(conversation_history, user_input) ==
    IF conversation_history # <<>>
    THEN Append(conversation_history, [type |-> "human", content |-> user_input,
                                       tool_calls |-> 0])
    ELSE conversation_history

\* chat: setup_database_and_container returns or raises; on success the
\* HumanMessage is appended and the workflow is invoked; on failure chat's
\* `except Exception` returns the apology
chat_setup(r) ==
    /\ pc[r] = "bot_setup"
    /\ \E ok \in BOOLEAN :
        /\ loc' = [loc EXCEPT
                     ![r].response = IF ok THEN @ ELSE Apology,
                     ![r].conversation =
                         IF ok THEN history_after_append(@, req[r].message) ELSE @,
                     ![r].messages =
                         IF ok THEN Append(loc[r].conversation, HumanMessage(req[r].message))
                         ELSE @]
        /\ trace' = [trace EXCEPT ![r] =
                        IF ok THEN Log(@, <<Ev("setup", TRUE, <<>>)>>)
                        ELSE Log(@, <<Ev("setup", FALSE, <<>>),
                                      Ev("exception", FALSE, ExcText)>>)]
        /\ pc' = [pc EXCEPT ![r] = IF ok THEN "extract_query" ELSE "after_chat"]
    /\ UNCHANGED <<req, container, clock, live, tracing, msgs, index, wfVars, ragVars, ckVars>>

\* node extract_query: the content of the last message, the HumanMessage
_extract_query(r) ==
    /\ pc[r] = "extract_query"
    /\ loc' = [loc EXCEPT ![r].user_query = req[r].message]
    /\ pc' = [pc EXCEPT ![r] = "search_documents"]
    /\ UNCHANGED <<req, trace, container, clock, live, tracing, msgs, index, wfVars, ragVars, ckVars>>

\* node search_documents
_search_documents(r) ==
    /\ pc[r] = "search_documents"
    /\ IF loc[r].user_query # <<>>
       THEN \E outcome \in BotSearchOutcomes, hits \in index :
              LET found == search_documents(outcome, Hits(hits))
              IN  IF found.raised
                  THEN /\ loc' = [loc EXCEPT ![r].response = Apology]
                       /\ trace' = [trace EXCEPT ![r] =
                                      Log(@, <<Ev("search", FALSE, <<>>),
                                             Ev("exception", FALSE, ExcText)>>)]
                       /\ pc' = [pc EXCEPT ![r] = "after_chat"]
                  ELSE /\ loc' = [loc EXCEPT ![r].search_results = found.results,
                                             ![r].context = build_context(found.results)]
                       /\ trace' = [trace EXCEPT ![r] =
                                      Log(@, <<Ev("search", outcome # "fail", <<>>)>>)]
                       /\ pc' = [pc EXCEPT ![r] = "generate_response"]
       ELSE /\ loc' = [loc EXCEPT ![r].search_results = <<>>, ![r].context = <<>>]
            /\ pc' = [pc EXCEPT ![r] = "generate_response"]
            /\ UNCHANGED trace
    /\ UNCHANGED <<req, container, clock, live, tracing, msgs, index, wfVars, ragVars, ckVars>>

\* node generate_response: a canned answer, or the LLM's; when chain.ainvoke
\* raises, the exception leaves the workflow and chat returns the apology
_generate_response(r) ==
    /\ pc[r] = "generate_response"
    /\ LET query  == loc[r].user_query
           branch == generate_branch(query, loc[r].search_results)
       IN  IF branch = "llm"
           THEN \E ok \in BOOLEAN :
                  /\ loc' = [loc EXCEPT
                               ![r].response = IF ok THEN LLMAnswer ELSE Apology,
                               ![r].messages = IF ok THEN Append(@, AIMessage(LLMAnswer, 0))
                                               ELSE @]
                  /\ trace' = [trace EXCEPT ![r] =
                                 IF ok THEN Log(@, <<Ev("llm", TRUE, <<>>)>>)
                                 ELSE Log(@, <<Ev("llm", FALSE, <<>>),
                                               Ev("exception", FALSE, ExcText)>>)]
                  /\ pc' = [pc EXCEPT ![r] = IF ok THEN "save_conversation" ELSE "after_chat"]
           ELSE /\ LET canned == CASE branch = "greeting"     -> GreetingResponse
                                   [] branch = "no_results"   -> NoResultsResponse(query)
                                   [] branch = "not_relevant" -> NotRelevantResponse(query)
                   IN  loc' = [loc EXCEPT ![r].response = canned,
                                          ![r].messages = Append(@, AIMessage(canned, 0))]
                /\ pc' = [pc EXCEPT ![r] = "save_conversation"]
                /\ UNCHANGED trace
    /\ UNCHANGED <<req, container, clock, live, tracing, msgs, index, wfVars, ragVars, ckVars>>

\* node save_conversation: when session_id is set, save_conversation builds
\* conversation_doc with datetime.now() and runs to
\* `await self.container.create_item`; otherwise the workflow ends
_save_conversation(r) ==
    /\ pc[r] = "save_conversation"
    /\ IF loc[r].session_id # NoSession
       THEN \E now \in clock..MaxClock :
              /\ clock' = now
              /\ loc' = [loc EXCEPT ![r].timestamp = now]
              /\ pc' = [pc EXCEPT ![r] = "create_item"]
       ELSE /\ pc' = [pc EXCEPT ![r] = "after_chat"]
            /\ UNCHANGED <<loc, clock>>
    /\ UNCHANGED <<req, trace, container, live, tracing, msgs, index, wfVars, ragVars, ckVars>>

\* create_item completes, or raises and the failure is printed; the
\* workflow ends and chat returns final_state["response"]
_save_conversation_return(r) ==
    /\ pc[r] = "create_item"
    /\ \E ok \in BOOLEAN :
        /\ container' =
              IF ok
              THEN save_conversation(container, Uuid4(r, 3 + loc[r].turns),
                                     loc[r].session_id,
                                     loc[r].timestamp, loc[r].user_query,
                                     loc[r].response, loc[r].search_results, r)
              ELSE container
        /\ trace' = [trace EXCEPT ![r] = Log(@, <<Ev("store", ok, loc[r].response)>>)]
    /\ pc' = [pc EXCEPT ![r] = "after_chat"]
    /\ UNCHANGED <<req, loc, clock, live, tracing, msgs, index, wfVars, ragVars, ckVars>>

----------------------------------------------------------------------------
(* app.py after bot_instance.chat has returned *)

\* POST /chat: get_search_results_async, then the ChatResponse
app_chat_response(r) ==
    /\ pc[r] = "after_chat"
    /\ req[r].kind = "app_chat"
    /\ \E outcome \in BotSearchOutcomes :
        trace' = [trace EXCEPT ![r] =
                    Log(@, <<Ev("get_search_results", outcome # "fail", <<>>),
                             Ev("return", TRUE, loc[r].response)>>)]
    /\ pc' = [pc EXCEPT ![r] = "done"]
    /\ loc' = [loc EXCEPT ![r] = InitLoc]
    /\ UNCHANGED <<req, container, clock, live, tracing, msgs, index, wfVars, ragVars, ckVars>>

\* POST /chat/stream: get_search_results_async, then
\* {'search_results': ...} is yielded
stream_search_results(r) ==
    /\ pc[r] = "after_chat"
    /\ req[r].kind = "app_stream"
    /\ \E outcome \in BotSearchOutcomes :
        trace' = [trace EXCEPT ![r] =
                    Log(@, <<Ev("get_search_results", outcome # "fail", <<>>)>>)]
    /\ pc' = [pc EXCEPT ![r] = "yield_results"]
    /\ UNCHANGED <<req, loc, container, clock, live, tracing, msgs, index, wfVars, ragVars, ckVars>>

\* {'search_results': ...} is delivered; {'status': 'generating'} is yielded
stream_generating(r) ==
    /\ pc[r] = "yield_results"
    /\ trace' = [trace EXCEPT ![r] = Log(@, <<Ev("search_results", TRUE, <<>>)>>)]
    /\ pc' = [pc EXCEPT ![r] = "yield_generating"]
    /\ UNCHANGED <<req, loc, container, clock, live, tracing, msgs, index, wfVars, ragVars, ckVars>>

\* {'status': 'generating'} is delivered; words = response.split()
stream_split(r) ==
    /\ pc[r] = "yield_generating"
    /\ trace' = [trace EXCEPT ![r] = Log(@, <<Ev("status", TRUE, <<"generating">>)>>)]
    /\ loc' = [loc EXCEPT ![r].words = Split(loc[r].response), ![r].context = <<>>]
    /\ pc' = [pc EXCEPT ![r] = "words"]
    /\ UNCHANGED <<req, container, clock, live, tracing, msgs, index, wfVars, ragVars, ckVars>>

\* a loop that delivers current_text without strip()
stream_partial_response_unstripped(r) ==
    /\ pc[r] = "words"
    /\ loc[r].words # <<>>
    /\ LET current_text == loc[r].context \o Head(loc[r].words) \o <<" ">>
       IN  /\ loc' = [loc EXCEPT ![r].context = current_text, ![r].words = Tail(@)]
           /\ trace' = [trace EXCEPT ![r] =
                          Log(@, <<Ev("partial_response", TRUE, current_text)>>)]
    /\ UNCHANGED <<req, pc, container, clock, live, tracing, msgs, index, wfVars, ragVars, ckVars>>

\* one round of `for i, word in enumerate(words)`: current_text += word + " "
\* and {'partial_response': current_text.strip()} is delivered
\* (loc.context holds current_text, loc.words the words still to come)
stream_partial_response(r) ==
    /\ pc[r] = "words"
    /\ loc[r].words # <<>>
    /\ LET current_text == loc[r].context \o Head(loc[r].words) \o <<" ">>
       IN  /\ loc' = [loc EXCEPT ![r].context = current_text, ![r].words = Tail(@)]
           /\ trace' = [trace EXCEPT ![r] =
                          Log(@, <<Ev("partial_response", TRUE, Strip(current_text))>>)]
    /\ UNCHANGED <<req, pc, container, clock, live, tracing, msgs, index, wfVars, ragVars, ckVars>>

\* the loop is over; {'final_response': response, 'session_id': ...} is yielded
stream_final_response(r) ==
    /\ pc[r] = "words"
    /\ loc[r].words = <<>>
    /\ pc' = [pc EXCEPT ![r] = "yield_final"]
    /\ UNCHANGED <<req, loc, trace, container, clock, live, tracing, msgs, index, wfVars, ragVars, ckVars>>

\* final_response is delivered; {'status': 'completed'} is yielded
stream_completed(r) ==
    /\ pc[r] = "yield_final"
    /\ trace' = [trace EXCEPT ![r] = Log(@, <<Ev("final_response", TRUE, loc[r].response)>>)]
    /\ pc' = [pc EXCEPT ![r] = "yield_completed"]
    /\ UNCHANGED <<req, loc, container, clock, live, tracing, msgs, index, wfVars, ragVars, ckVars>>

\* {'status': 'completed'} is delivered: the last element of the stream
stream_close(r) ==
    /\ pc[r] = "yield_completed"
    /\ trace' = [trace EXCEPT ![r] = Log(@, <<Ev("status", TRUE, <<"completed">>)>>)]
    /\ pc' = [pc EXCEPT ![r] = "done"]
    /\ loc' = [loc EXCEPT ![r] = InitLoc]
    /\ UNCHANGED <<req, container, clock, live, tracing, msgs, index, wfVars, ragVars, ckVars>>

----------------------------------------------------------------------------
(* chatbot.py run as a program: the console loop of main()                 *)

\* main starts: the bot is built and start_new_session is awaited
main(r) ==
    /\ r \in live
    /\ pc[r] = "idle"
    /\ req' = [req EXCEPT ![r] = [kind |-> "console", session_id |-> NoSession,
                                  message |-> <<>>]]
    /\ pc' = [pc EXCEPT ![r] = "new_session"]
    /\ UNCHANGED <<loc, trace, container, clock, live, tracing, msgs, index, wfVars, ragVars, ckVars>>

\* input(): a line is read; quit leaves the loop, anything else is passed
\* to bot.chat(user_input, conversation, session_id)
main_input(r) ==
    /\ pc[r] = "input"
    /\ \/ /\ loc[r].turns < MaxTurns
          /\ \E user_input \in msgs :
                req' = [req EXCEPT ![r].message = user_input]
          /\ pc' = [pc EXCEPT ![r] = "bot_setup"]
       \/ /\ pc' = [pc EXCEPT ![r] = "done"]
          /\ UNCHANGED req
    /\ UNCHANGED <<loc, trace, container, clock, live, tracing, msgs, index, wfVars, ragVars, ckVars>>

\* bot.chat has returned: the response is printed and the turn appended:
\* conversation.append(HumanMessage(...)); conversation.append(AIMessage(...))
main_append(r) ==
    /\ pc[r] = "after_chat"
    /\ req[r].kind = "console"
    /\ loc' = [loc EXCEPT
                 ![r].conversation =
                     @ \o <<[type |-> "human", content |-> req[r].message, tool_calls |-> 0],
                            [type |-> "ai", content |-> loc[r].response, tool_calls |-> 0]>>,
                 ![r].turns = @ + 1]
    /\ pc' = [pc EXCEPT ![r] = "input"]
    /\ UNCHANGED <<req, trace, container, clock, live, tracing, msgs, index, wfVars, ragVars, ckVars>>


----------------------------------------------------------------------------
(* app.py GET /sessions/{session_id}/history *)

\* the values of the query parameter limit (default 10)
Limits == {1, 2, 5, 10}

\* the request arrives; runs into bot_instance.get_conversation_history up
\* to `await self.cosmos_manager.setup_database_and_container()`
app_get_conversation_history(r) ==
    /\ r \in live
    /\ pc[r] = "idle"
    /\ \E s \in SessionArgs \ {NoSession}, limit \in Limits :
        /\ req' = [req EXCEPT ![r] = [kind |-> "app_history", session_id |-> s,
                                      message |-> <<>>]]
        /\ loc' = [loc EXCEPT ![r].session_id = s, ![r].limit = limit]
    /\ pc' = [pc EXCEPT ![r] = "history_setup"]
    /\ UNCHANGED <<trace, container, clock, live, tracing, msgs, index, wfVars, ragVars, ckVars>>

\* setup and the query complete, or one of them raises and [] is returned
\* (except Exception in the bot, except CosmosHttpResponseError in the
\* manager); the handler builds its response
bot_get_conversation_history(r) ==
    /\ pc[r] = "history_setup"
    /\ \E ok \in BOOLEAN,
          h \in get_conversation_history(container, loc[r].session_id, loc[r].limit,
                                         "conversation_turn") :
        /\ loc' = [loc EXCEPT ![r].conversation_history = IF ok THEN h ELSE <<>>]
        /\ trace' = [trace EXCEPT ![r] = Log(@, <<Ev("history", ok, <<>>)>>)]
    /\ pc' = [pc EXCEPT ![r] = "history_return"]
    /\ UNCHANGED <<req, container, clock, live, tracing, msgs, index, wfVars, ragVars, ckVars>>

\* {"session_id": session_id, "history": history} is returned
app_history_response(r) ==
    /\ pc[r] = "history_return"
    /\ pc' = [pc EXCEPT ![r] = "done"]
    /\ loc' = [loc EXCEPT ![r] = InitLoc]
    /\ UNCHANGED <<req, trace, container, clock, live, tracing, msgs, index, wfVars, ragVars, ckVars>>

----------------------------------------------------------------------------
(* The caller of a streaming endpoint disconnects: the StreamingResponse  *)
(* is cancelled and its generator stops at the await or yield where it is *)
(* suspended (CancelledError / GeneratorExit are not Exceptions)          *)

StreamKinds == {"stream", "app_stream"}

cancel(r) ==
    /\ req[r].kind \in StreamKinds
    /\ pc[r] \notin {"idle", "done", "cancelled"}
    /\ trace' = [trace EXCEPT ![r] = Log(@, <<Ev("cancel", TRUE, <<>>)>>)]
    /\ pc' = [pc EXCEPT ![r] = "cancelled"]
    /\ loc' = [loc EXCEPT ![r] = InitLoc]
    /\ UNCHANGED <<req, container, clock, live, tracing, msgs, index, wfVars, ragVars, ckVars>>

----------------------------------------------------------------------------
(* travel-assistant/backend/workflows/travel_workflow.py *)

Graphs == 1..NumGraphs

\* session_id arguments of invoke_graph_workflow; "" stands for None
WorkflowSessionArgs == {"", "A", "B"}


\* the messages llm_with_tools may answer with: an answer, a tool call,
\* an answer with a tool call
LLMResponses ==
    {AIMessage(LLMAnswer, 0), AIMessage(<<>>, 1), AIMessage(LLMAnswer, 1)}

\* responses that carry several tool calls
ParallelResponses ==
    {AIMessage(content, n) : content \in {<<>>, LLMAnswer}, n \in 2..MaxToolCalls}

\* store_message records how the call of ChatHistoryManager.store_message
\* made by the run ended: "none" while none was made, "ok", "raised"
NoGraph ==
    [node |-> "none", session_id |-> "", conversation_context |-> "",
     messages |-> <<>>, store_message |-> "none"]

\* set_session_id + get_workflow_graph + compile: the graph is built with
\* conversation_context = {'session_id': cls._current_session_id}
invoke_graph_workflow(g) ==
    /\ g \in live
    /\ graphs[g].node = "none"
    /\ \A h \in Graphs : h < g => graphs[h].node # "none"
    /\ \E session_id \in WorkflowSessionArgs :
        LET current == IF session_id # "" THEN session_id ELSE current_session_id
        IN  /\ current_session_id' = current
            /\ graphs' = [graphs EXCEPT ![g] =
                            [node |-> "compiled", session_id |-> session_id,
                             conversation_context |-> current, messages |-> <<>>,
                             store_message |-> "none"]]
    /\ UNCHANGED <<wf_store, llm, httpVars, ckVars, ragVars>>

\* graph.ainvoke({"messages": [HumanMessage(...)]}): the run enters brain
graph_ainvoke(g) ==
    /\ graphs[g].node = "compiled"
    /\ graphs' = [graphs EXCEPT ![g].node = "brain",
                                ![g].messages = <<HumanMessage(MsgParis)>>]
    /\ UNCHANGED <<current_session_id, wf_store, llm, httpVars, ckVars, ragVars>>

\* filter_messages: messages[-5:]
filter_messages(messages) ==
    SubSeq(messages, Len(messages) - Min(5, Len(messages)) + 1, Len(messages))

\* a should_continue that sends every brain response to the tools node
should_continue_always(messages) ==
    IF messages # <<>> THEN "continue" ELSE "store_history"

\* should_continue: "continue" when the last message has tool calls
should_continue(messages) ==
    IF messages[Len(messages)].tool_calls > 0 THEN "continue" ELSE "store_history"

\* node brain (call_model) followed by the conditional edge; when the chain
\* raises, call_model re-raises and the run fails
call_model(g) ==
    /\ graphs[g].node = "brain"
    /\ \/ \E response \in llm :
            LET messages == Append(graphs[g].messages, response)
            IN  graphs' = [graphs EXCEPT
                             ![g].messages = messages,
                             ![g].node = IF should_continue(messages) = "continue"
                                         THEN "tools" ELSE "store_history"]
       \/ graphs' = [graphs EXCEPT ![g].node = "failed"]
    /\ UNCHANGED <<current_session_id, wf_store, llm, httpVars, ckVars, ragVars>>

\* the str the tool search_documents returns
search_documents_tool(outcome) ==
    CASE outcome = "found" -> <<"Document 1 (paris.txt):", "\n", "Title: Paris Guide">>
      [] outcome = "empty" -> <<"I couldn't find specific information for your query.">>
      [] outcome = "fail"  -> <<"I couldn't find specific information for your query.">>

\* node tools (ToolNode): one ToolMessage for each tool call of the last
\* message, in the order of the calls
tool_node(g) ==
    /\ graphs[g].node = "tools"
    /\ LET tool_calls == graphs[g].messages[Len(graphs[g].messages)].tool_calls
       IN  \E outcome \in [1..tool_calls -> SearchOutcomes] :
             graphs' = [graphs EXCEPT
                          ![g].messages =
                              @ \o [i \in 1..tool_calls |->
                                      ToolMessage(search_documents_tool(outcome[i]))],
                          ![g].node = "final_model"]
    /\ UNCHANGED <<current_session_id, wf_store, llm, httpVars, ckVars, ragVars>>

\* a graph whose final_model has the conditional edge of brain: a response
\* with tool calls leads back to tools
call_final_model_conditional(g) ==
    /\ graphs[g].node = "final_model"
    /\ \/ \E response \in llm :
            LET messages == Append(graphs[g].messages, response)
            IN  graphs' = [graphs EXCEPT
                             ![g].messages = messages,
                             ![g].node = IF should_continue(messages) = "continue"
                                         THEN "tools" ELSE "store_history"]
       \/ graphs' = [graphs EXCEPT ![g].node = "failed"]
    /\ UNCHANGED <<current_session_id, wf_store, llm, httpVars, ckVars, ragVars>>

\* node final_model (call_final_model); the edge leads to store_history
call_final_model(g) ==
    /\ graphs[g].node = "final_model"
    /\ \/ \E response \in llm :
            graphs' = [graphs EXCEPT ![g].messages = Append(@, response),
                                    ![g].node = "store_history"]
       \/ graphs' = [graphs EXCEPT ![g].node = "failed"]
    /\ UNCHANGED <<current_session_id, wf_store, llm, httpVars, ckVars, ragVars>>

\* the positions of the messages of a type that have content
WithContent(messages, type) ==
    {i \in 1..Len(messages) : messages[i].type = type /\ messages[i].content # <<>>}

Max(S) == CHOOSE x \in S : \A y \in S : y <= x

\* store_chat_history_tool: conversation_id = cls._current_session_id
conversation_id(g) == current_session_id

\* node store_history (store_chat_history_tool): the last human and the last
\* ai message with content are stored under conversation_id; a failure of the
\* store is logged; the edge leads to END
store_chat_history_tool(g) ==
    /\ graphs[g].node = "store_history"
    /\ LET messages == graphs[g].messages
           humans == WithContent(messages, "human")
           ais == WithContent(messages, "ai")
       IN  IF Len(messages) >= 2 /\ humans # {} /\ ais # {}
           THEN \E ok \in BOOLEAN :
                  /\ wf_store' = IF ok
                                 THEN wf_store \cup
                                      {[session_id |-> conversation_id(g),
                                        user_message |-> messages[Max(humans)].content,
                                        assistant_response |-> messages[Max(ais)].content,
                                        graph |-> g]}
                                 ELSE wf_store
                  /\ graphs' = [graphs EXCEPT
                                  ![g].node = "end",
                                  ![g].store_message = IF ok THEN "ok" ELSE "raised"]
           ELSE /\ graphs' = [graphs EXCEPT ![g].node = "end"]
                /\ UNCHANGED wf_store
    /\ UNCHANGED <<current_session_id, llm, httpVars, ckVars, ragVars>>

NextWorkflow ==
    \E g \in Graphs :
        \/ invoke_graph_workflow(g)
        \/ graph_ainvoke(g)
        \/ call_model(g)
        \/ tool_node(g)
        \/ call_final_model(g)
        \/ store_chat_history_tool(g)

----------------------------------------------------------------------------
(* rag-cosmos-bot/rag_bot.py: the global RAGChatBot *)

Calls == 1..NumCalls

\* the user_input of a get_response call
RagInputs == {MsgHello, MsgParis}

\* a call slot: a get_response call made directly or by POST /chat of
\* backend.py (endpoint), whose HTTP status is 0 until it is answered;
\* cleared records that clear_memory ran while the call awaited the chain
NoCall ==
    [pc |-> "idle", user_input |-> <<>>, chat_history |-> <<>>, response |-> <<>>,
     endpoint |-> FALSE, status |-> 0, cleared |-> FALSE]

\* "(cross mark) Chatbot not initialized. Please check configuration."
NotInitialized ==
    <<"(cross mark)", " ", "Chatbot not initialized.", " ", "Please check configuration.">>

\* error_msg = f"(cross mark) Error generating response: {str(e)}"
error_msg(e) == <<"(cross mark)", " ", "Error generating response:", " ">> \o e

\* ConversationBufferWindowMemory(k=5).load_memory_variables({})["chat_history"]:
\* the last 2 * k messages
load_memory_variables(messages) ==
    SubSeq(messages, Len(messages) - Min(10, Len(messages)) + 1, Len(messages))

\* RAGChatBot.initialize: setup_complete is set when every step succeeds
initialize ==
    /\ ~setup_complete
    /\ \E ok \in BOOLEAN : setup_complete' = ok
    /\ UNCHANGED <<memory, rag, httpVars, ckVars, wfVars>>

\* get_response is called: returns at once when the bot is not set up, else
\* loads the chat history and runs to `await self.rag_chain.ainvoke`
get_response(c) ==
    /\ rag[c].pc = "idle"
    /\ \E user_input \in RagInputs :
        rag' = [rag EXCEPT ![c] =
                  IF ~setup_complete
                  THEN [pc |-> "done", user_input |-> user_input,
                        chat_history |-> <<>>, response |-> NotInitialized,
                        endpoint |-> FALSE, status |-> 0, cleared |-> FALSE]
                  ELSE [pc |-> "ainvoke", user_input |-> user_input,
                        chat_history |-> load_memory_variables(memory),
                        response |-> <<>>, endpoint |-> FALSE, status |-> 0,
                        cleared |-> FALSE]]
    /\ UNCHANGED <<setup_complete, memory, httpVars, ckVars, wfVars>>

\* what get_response returns when the chain raises e
get_response_failed(e) == error_msg(e)

\* a get_response that records the user message also when the chain raises
get_response_return_recording_failures(c) ==
    /\ rag[c].pc = "ainvoke"
    /\ \E ok \in BOOLEAN :
        IF ok
        THEN /\ memory' = memory \o <<HumanMessage(rag[c].user_input),
                                       AIMessage(LLMAnswer, 0)>>
             /\ rag' = [rag EXCEPT ![c].pc = "done", ![c].response = LLMAnswer,
                                   ![c].status = IF rag[c].endpoint THEN 200 ELSE 0]
        ELSE /\ memory' = Append(memory, HumanMessage(rag[c].user_input))
             /\ rag' = [rag EXCEPT ![c].pc = "failed",
                                   ![c].response = get_response_failed(ExcText),
                                   ![c].status = IF rag[c].endpoint THEN 200 ELSE 0]
    /\ UNCHANGED <<setup_complete, httpVars, ckVars, wfVars>>

\* rag_chain.ainvoke returns: the memory is updated and the response
\* returned; or it raises: error_msg is returned
get_response_return(c) ==
    /\ rag[c].pc = "ainvoke"
    /\ \E ok \in BOOLEAN :
        IF ok
        THEN /\ memory' = memory \o <<HumanMessage(rag[c].user_input),
                                       AIMessage(LLMAnswer, 0)>>
             /\ rag' = [rag EXCEPT ![c].pc = "done", ![c].response = LLMAnswer,
                                   ![c].status = IF rag[c].endpoint THEN 200 ELSE 0]
        ELSE /\ rag' = [rag EXCEPT ![c].pc = "failed",
                                   ![c].response = get_response_failed(ExcText),
                                   ![c].status = IF rag[c].endpoint THEN 200 ELSE 0]
             /\ UNCHANGED memory
    /\ UNCHANGED <<setup_complete, httpVars, ckVars, wfVars>>

----------------------------------------------------------------------------
(* rag-cosmos-bot/backend.py *)

\* the user_message of a POST /chat
BackendInputs == RagInputs \cup {MsgEmpty, MsgBlank}

\* chatbot_initialized = initialize_chatbot() at startup: what
\* chatbot.initialize() returned
chatbot_initialized == setup_complete

\* str(e) of HTTPException(status_code, detail)
HTTPExceptionText(status_code, detail) ==
    CASE status_code = 400 -> <<"400", ":", " ">> \o detail
      [] status_code = 500 -> <<"500", ":", " ">> \o detail
      [] status_code = 503 -> <<"503", ":", " ">> \o detail

\* the except clause of chat_endpoint: except Exception as e catches what the
\* try block raises, HTTPException included, and raises
\* HTTPException(500, f"Error processing your request: {str(e)}")
chat_endpoint_except(status_code, detail) ==
    [status |-> 500,
     detail |-> <<"Error processing your request:", " ">>
                \o HTTPExceptionText(status_code, detail)]

\* POST /chat arrives: 503 when the chatbot is not initialized; an empty
\* user_message.strip() raises HTTPException(400) inside the try block;
\* otherwise get_chatbot_response runs to `await self.rag_chain.ainvoke`
backend_chat_endpoint(c) ==
    /\ rag[c].pc = "idle"
    /\ \E message \in BackendInputs :
        LET user_message == Strip(message)
            raised == chat_endpoint_except(400, <<"User message cannot be empty">>)
        IN  rag' = [rag EXCEPT ![c] =
                      IF ~chatbot_initialized
                      THEN [pc |-> "done", user_input |-> user_message,
                            chat_history |-> <<>>,
                            response |-> <<"Chatbot is not initialized.", " ",
                                           "Please check server logs.">>,
                            endpoint |-> TRUE, status |-> 503, cleared |-> FALSE]
                      ELSE IF user_message = <<>>
                      THEN [pc |-> "done", user_input |-> user_message,
                            chat_history |-> <<>>, response |-> raised.detail,
                            endpoint |-> TRUE, status |-> raised.status,
                            cleared |-> FALSE]
                      ELSE [pc |-> "ainvoke", user_input |-> user_message,
                            chat_history |-> load_memory_variables(memory),
                            response |-> <<>>, endpoint |-> TRUE, status |-> 0,
                            cleared |-> FALSE]]
    /\ UNCHANGED <<setup_complete, memory, httpVars, ckVars, wfVars>>


\* RAGChatBot.clear_memory (also POST /clear-memory of backend.py, once the
\* chatbot is initialized): self.memory.clear()
clear_memory ==
    /\ setup_complete
    /\ memory' = <<>>
    /\ rag' = [c \in Calls |->
                 IF rag[c].pc = "ainvoke" THEN [rag[c] EXCEPT !.cleared = TRUE]
                 ELSE rag[c]]
    /\ UNCHANGED <<setup_complete, httpVars, ckVars, wfVars>>

----------------------------------------------------------------------------
(* rag-bot/simple_main.py: the simple backend.  In its runs setup_complete *)
(* stands for `chat_chain is not None and memory is not None` and memory   *)
(* for the messages of its global memory                                   *)

\* startup_event: initialize_simple_chatbot_components returns or raises
simple_startup_event ==
    /\ ~setup_complete
    /\ \E ok \in BOOLEAN : setup_complete' = ok
    /\ UNCHANGED <<memory, rag, httpVars, ckVars, wfVars>>

\* POST /chat arrives: 503 when the components are missing; otherwise the
\* chat history is loaded and the handler runs into
\* `async for chunk in chat_chain.astream(chain_input)`
simple_chat_endpoint(c) ==
    /\ rag[c].pc = "idle"
    /\ \E user_message \in BackendInputs :
        rag' = [rag EXCEPT ![c] =
                  IF ~setup_complete
                  THEN [pc |-> "done", user_input |-> user_message,
                        chat_history |-> <<>>,
                        response |-> <<"Chatbot components not initialized.">>,
                        endpoint |-> TRUE, status |-> 503, cleared |-> FALSE]
                  ELSE [pc |-> "astream", user_input |-> user_message,
                        chat_history |-> load_memory_variables(memory),
                        response |-> <<>>, endpoint |-> TRUE, status |-> 0,
                        cleared |-> FALSE]]
    /\ UNCHANGED <<setup_complete, memory, httpVars, ckVars, wfVars>>

\* chat_chain.astream delivers a chunk: full_response += chunk
simple_chat_chunk(c) ==
    /\ rag[c].pc = "astream"
    /\ \E chunk \in StreamContents :
        /\ Len(rag[c].response \o chunk) <= MaxFrags
        /\ chunk # <<>>
        /\ rag' = [rag EXCEPT ![c].response = @ \o chunk]
    /\ UNCHANGED <<setup_complete, memory, httpVars, ckVars, wfVars>>

\* the stream ends: the turn is added to the memory and {"response": ...}
\* returned; or the stream raises: HTTPException(500, "Error processing chat: ...")
simple_chat_return(c) ==
    /\ rag[c].pc = "astream"
    /\ \E ok \in BOOLEAN :
        IF ok
        THEN /\ memory' = memory \o <<HumanMessage(rag[c].user_input),
                                       AIMessage(rag[c].response, 0)>>
             /\ rag' = [rag EXCEPT ![c].pc = "done", ![c].status = 200]
        ELSE /\ rag' = [rag EXCEPT ![c].pc = "failed", ![c].status = 500,
                                   ![c].response = <<"Error processing chat:", " ">>
                                                   \o ExcText]
             /\ UNCHANGED memory
    /\ UNCHANGED <<setup_complete, httpVars, ckVars, wfVars>>

NextSimple ==
    \/ simple_startup_event
    \/ \E c \in Calls :
          simple_chat_endpoint(c) \/ simple_chat_chunk(c) \/ simple_chat_return(c)


NextRag ==
    \/ initialize
    \/ clear_memory
    \/ \E c \in Calls : get_response(c) \/ get_response_return(c)
    \/ \E c \in Calls : backend_chat_endpoint(c)

----------------------------------------------------------------------------
(* travel-assistant/backend/tools/checkpoint_tool.py: CheckpointManager    *)

\* OFFSET @offset LIMIT 1000
QueryLimit == 1000

\* the threads that have checkpoints, and the keep_latest arguments
ThreadIds == {"t1", "t2"}
KeepLatest == {2, 10}

\* how many checkpoints aput has stored for the first thread
CheckpointCounts == {0, 2, 3, 11, QueryLimit + 1, MaxCheckpoints}

\* checkpoint_doc of aput, with the fields the cleanup reads: id is a fresh
\* uuid4, timestamp is datetime.utcnow().isoformat() as the position of
\* that instant in time; the k-th aput of a thread wrote the k-th document
CheckpointDoc(thread_id, k) ==
    [id |-> IF thread_id = "t1" THEN k ELSE MaxCheckpoints + k,
     thread_id |-> thread_id, timestamp |-> k]

\* the documents n calls of aput have stored for a thread
Stored(thread_id, n) == {CheckpointDoc(thread_id, k) : k \in 1..n}

\* WHERE c.thread_id = @thread_id
OfThread(docs, thread_id) == {d \in docs : d.thread_id = thread_id}

\* ORDER BY c.timestamp DESC: the timestamps of the documents, latest first
TimestampsDesc(docs) ==
    SelectSeq([i \in 1..MaxCheckpoints + 1 |-> MaxCheckpoints + 2 - i],
              LAMBDA ts : \E d \in docs : d.timestamp = ts)

\* SELECT c.id, c.timestamp FROM c WHERE c.thread_id = @thread_id
\* ORDER BY c.timestamp DESC OFFSET @offset LIMIT 1000: the ids returned
query_items(docs, thread_id, offset) ==
    LET of_thread == OfThread(docs, thread_id)
        ordered   == TimestampsDesc(of_thread)
        page      == SubSeq(ordered, offset + 1, Min(Len(ordered), offset + QueryLimit))
    IN  [k \in 1..Len(page) |-> (CHOOSE d \in of_thread : d.timestamp = page[k]).id]

\* container.delete_item(item=item_id, partition_key=thread_id)
delete_item(docs, item_id, thread_id) ==
    {d \in docs : ~(d.id = item_id /\ d.thread_id = thread_id)}

NoCleanup ==
    [pc |-> "idle", thread_id |-> "t1", keep_latest |-> 0, items_to_delete |-> <<>>,
     before |-> {}, failed |-> FALSE]

\* cleanup_old_checkpoints(thread_id, keep_latest) is called: runs to the
\* query, unless _ensure_initialized raises
cleanup_old_checkpoints ==
    /\ cleanup.pc = "idle"
    /\ \E thread_id \in ThreadIds, keep_latest \in KeepLatest, ok \in BOOLEAN :
          cleanup' = [cleanup EXCEPT !.pc = IF ok THEN "query" ELSE "raised",
                                     !.thread_id = thread_id,
                                     !.keep_latest = keep_latest,
                                     !.before = checkpoints,
                                     !.failed = ~ok]
    /\ UNCHANGED <<checkpoints, httpVars, wfVars, ragVars>>

\* async for item in self.container.query_items(...): the ids past the
\* first keep_latest are collected; when the query raises, the except
\* clause logs the error and the call returns
cleanup_query_items ==
    /\ cleanup.pc = "query"
    /\ \E ok \in BOOLEAN :
          cleanup' =
             IF ok
             THEN [cleanup EXCEPT
                     !.pc = "delete",
                     !.items_to_delete =
                         query_items(checkpoints, cleanup.thread_id, cleanup.keep_latest)]
             ELSE [cleanup EXCEPT !.pc = "done", !.failed = TRUE]
    /\ UNCHANGED <<checkpoints, httpVars, wfVars, ragVars>>

\* for item_id in items_to_delete: await self.container.delete_item(...);
\* when a delete raises, the except clause logs the error and the call
\* returns with the rest not deleted
cleanup_delete_item ==
    /\ cleanup.pc = "delete"
    /\ cleanup.items_to_delete # <<>>
    /\ \E ok \in BOOLEAN :
          IF ok
          THEN /\ checkpoints' = delete_item(checkpoints, Head(cleanup.items_to_delete),
                                             cleanup.thread_id)
               /\ cleanup' = [cleanup EXCEPT !.items_to_delete = Tail(@)]
          ELSE /\ cleanup' = [cleanup EXCEPT !.pc = "done", !.failed = TRUE]
               /\ UNCHANGED checkpoints
    /\ UNCHANGED <<httpVars, wfVars, ragVars>>

\* the loop is over: the call returns
cleanup_return ==
    /\ cleanup.pc = "delete"
    /\ cleanup.items_to_delete = <<>>
    /\ cleanup' = [cleanup EXCEPT !.pc = "done"]
    /\ UNCHANGED <<checkpoints, httpVars, wfVars, ragVars>>


----------------------------------------------------------------------------
(* The services.  Spec: one request, every collaborator call recorded in  *)
(* trace.  SpecPair: two requests handled concurrently over one container. *)

Idle ==
    /\ req = [r \in Reqs |-> NoReq]
    /\ pc = [r \in Reqs |-> "idle"]
    /\ loc = [r \in Reqs |-> InitLoc]
    /\ trace = [r \in Reqs |-> <<>>]
    /\ container = {}
    /\ clock = 0
    /\ current_session_id = "default_session"
    /\ graphs = [g \in Graphs |-> NoGraph]
    /\ wf_store = {}
    /\ setup_complete = FALSE
    /\ memory = <<>>
    /\ rag = [c \in Calls |-> NoCall]
    /\ checkpoints = {}
    /\ cleanup = NoCleanup

Init ==
    Idle /\ live = {1} /\ tracing = TRUE /\ msgs = Messages /\ index = {<<"doc1">>}
    /\ llm = {}

InitPair == Idle /\ live = Reqs /\ tracing = FALSE /\ msgs = {MsgHello, MsgParis}
            /\ index = {<<"doc1">>} /\ llm = {}

Next ==
    \E r \in Reqs :
        \/ chat_endpoint(r)
        \/ chat_get_history(r)
        \/ chat_generate_response(r)
        \/ chat_store_message(r)
        \/ chat_stream_endpoint(r)
        \/ stream_error_chunk(r)
        \/ stream_get_history(r)
        \/ stream_chunk(r)
        \/ stream_error(r)
        \/ stream_end(r)
        \/ stream_store_message(r)
        \/ stream_done(r)
        \/ app_chat(r)
        \/ stream_chat_response(r)
        \/ start_new_session(r)
        \/ stream_session_id(r)
        \/ stream_searching(r)
        \/ chat_setup(r)
        \/ _extract_query(r)
        \/ _search_documents(r)
        \/ _generate_response(r)
        \/ _save_conversation(r)
        \/ _save_conversation_return(r)
        \/ app_chat_response(r)
        \/ stream_search_results(r)
        \/ stream_generating(r)
        \/ stream_split(r)
        \/ stream_partial_response(r)
        \/ stream_final_response(r)
        \/ stream_completed(r)
        \/ stream_close(r)
        \/ cancel(r)

Spec == Init /\ [][Next]_vars

\* two concurrent turns through the paths that take the session id from the
\* request: server.py /chat and /chat/stream, app.py /chat (RAGLangGraphBot.chat)
NextPair ==
    \E r \in Reqs :
        \/ chat_endpoint(r)
        \/ chat_get_history(r)
        \/ chat_generate_response(r)
        \/ chat_store_message(r)
        \/ chat_stream_endpoint(r)
        \/ stream_error_chunk(r)
        \/ stream_get_history(r)
        \/ stream_chunk(r)
        \/ stream_error(r)
        \/ stream_end(r)
        \/ stream_store_message(r)
        \/ stream_done(r)
        \/ app_chat(r)
        \/ chat_setup(r)
        \/ _extract_query(r)
        \/ _search_documents(r)
        \/ _generate_response(r)
        \/ _save_conversation(r)
        \/ _save_conversation_return(r)
        \/ app_chat_response(r)

SpecPair == InitPair /\ [][NextPair]_vars

\* one turn through app.py /chat over an index that holds every list of
\* up to top_k documents
InitAssembly ==
    Idle /\ live = {1} /\ tracing = FALSE /\ msgs = {MsgParis} /\ index = ResultLists
    /\ llm = {}

NextAssembly ==
    \E r \in Reqs :
        \/ app_chat(r)
        \/ start_new_session(r)
        \/ chat_setup(r)
        \/ _extract_query(r)
        \/ _search_documents(r)
        \/ _generate_response(r)
        \/ _save_conversation(r)
        \/ _save_conversation_return(r)
        \/ app_chat_response(r)

SpecAssembly == InitAssembly /\ [][NextAssembly]_vars

\* POST /chat of app.py over result lists scored around the threshold
InitDecision ==
    Idle /\ live = {1} /\ tracing = TRUE /\ msgs = {MsgEmpty, MsgHello, MsgParis}
    /\ index = ScoredLists /\ llm = {}

NextDecision ==
    \E r \in Reqs :
        \/ app_chat(r)
        \/ start_new_session(r)
        \/ chat_setup(r)
        \/ _extract_query(r)
        \/ _search_documents(r)
        \/ _generate_response(r)
        \/ _save_conversation(r)
        \/ _save_conversation_return(r)
        \/ app_chat_response(r)

SpecDecision == InitDecision /\ [][NextDecision]_vars

\* the console program of chatbot.py
InitConsole ==
    Idle /\ live = {1} /\ tracing = FALSE /\ msgs = {MsgHello, MsgParis}
    /\ index = {<<"doc1">>} /\ llm = {}

NextConsole ==
    \E r \in Reqs :
        \/ main(r)
        \/ start_new_session(r)
        \/ main_input(r)
        \/ chat_setup(r)
        \/ _extract_query(r)
        \/ _search_documents(r)
        \/ _generate_response(r)
        \/ _save_conversation(r)
        \/ _save_conversation_return(r)
        \/ main_append(r)

SpecConsole == InitConsole /\ [][NextConsole]_vars

\* a Turn written by an earlier turn; origin 0: no request of this run
StoredTurn(id, session_id, timestamp, type) ==
    TurnDoc(id, session_id, timestamp, <<"Rome?">>, LLMAnswer, <<>>, type, 0)

\* what distinguishes the Turns the store holds when a run starts: they are
\* of either manager, in the sessions callers name, written up to MaxAge ago
StoredFields ==
    [session_id : SessionArgs \ {NoSession}, timestamp : (0 - MaxAge)..0,
     type : TurnTypes]

\* the contents of a store that holds the Turns f[1], f[2], ...
StoredContents(f) ==
    {StoredTurn(Uuid4(0, k), f[k].session_id, f[k].timestamp, f[k].type) :
       k \in DOMAIN f}

\* one request over a store that holds the Turns of earlier turns, followed
\* up to the end of its history read
InitHistory ==
    /\ req = [r \in Reqs |-> NoReq]
    /\ pc = [r \in Reqs |-> "idle"]
    /\ loc = [r \in Reqs |-> InitLoc]
    /\ trace = [r \in Reqs |-> <<>>]
    /\ \E n \in 0..MaxStored :
         \E f \in [1..n -> StoredFields] : container = StoredContents(f)
    /\ clock = 0
    /\ current_session_id = "default_session"
    /\ graphs = [g \in Graphs |-> NoGraph]
    /\ wf_store = {}
    /\ setup_complete = FALSE
    /\ memory = <<>>
    /\ rag = [c \in Calls |-> NoCall]
    /\ checkpoints = {}
    /\ cleanup = NoCleanup
    /\ live = {1} /\ tracing = TRUE /\ msgs = {MsgParis} /\ index = {<<"doc1">>}
    /\ llm = {}

NextHistory ==
    \E r \in Reqs :
        \/ app_get_conversation_history(r)
        \/ bot_get_conversation_history(r)
        \/ app_history_response(r)
        \/ chat_endpoint(r)
        \/ chat_get_history(r)

SpecHistory == InitHistory /\ [][NextHistory]_vars

\* the timestamps of n Turns written one after the other
Timestamps(n) ==
    {f \in [1..n -> (0 - MaxAge)..0] : \A k \in 1..(n - 1) : f[k] <= f[k + 1]}

\* the store holds up to MaxSessionTurns Turns of session 1, written by
\* ChatHistoryManager one after the other, and a Turn of session 2
SessionContents(f) ==
    {StoredTurn(Uuid4(0, k), 1, f[k], "conversation") : k \in DOMAIN f}
    \cup {StoredTurn(Uuid4(0, 0), 2, 0, "conversation")}

\* one turn through server.py /chat over a session that holds the Turns of
\* earlier turns
InitWindow ==
    /\ req = [r \in Reqs |-> NoReq]
    /\ pc = [r \in Reqs |-> "idle"]
    /\ loc = [r \in Reqs |-> InitLoc]
    /\ trace = [r \in Reqs |-> <<>>]
    /\ \E n \in 0..MaxSessionTurns :
         \E f \in Timestamps(n) : container = SessionContents(f)
    /\ clock = 0
    /\ current_session_id = "default_session"
    /\ graphs = [g \in Graphs |-> NoGraph]
    /\ wf_store = {}
    /\ setup_complete = FALSE
    /\ memory = <<>>
    /\ rag = [c \in Calls |-> NoCall]
    /\ checkpoints = {}
    /\ cleanup = NoCleanup
    /\ live = {1} /\ tracing = TRUE /\ msgs = {MsgParis} /\ index = {<<"doc1">>}
    /\ llm = {}

NextWindow ==
    \E r \in Reqs :
        \/ chat_endpoint(r)
        \/ chat_get_history(r)
        \/ chat_generate_response(r)
        \/ chat_store_message(r)

SpecWindow == InitWindow /\ [][NextWindow]_vars

\* the workflow graphs alone: no request is submitted to the services
InitWorkflow ==
    Idle /\ live = Graphs /\ tracing = FALSE /\ msgs = {} /\ index = {}
    /\ llm = LLMResponses

SpecWorkflow == InitWorkflow /\ [][NextWorkflow]_vars

\* one run of one workflow graph; a node that has been entered runs to its
\* end (LangGraph awaits each node in turn)
InitGraph ==
    Idle /\ live = {1} /\ tracing = FALSE /\ msgs = {} /\ index = {}
    /\ llm = LLMResponses

GraphFairness ==
    \A g \in Graphs :
        /\ WF_vars(call_model(g))
        /\ WF_vars(tool_node(g))
        /\ WF_vars(call_final_model(g))
        /\ WF_vars(store_chat_history_tool(g))

SpecGraph == InitGraph /\ [][NextWorkflow]_vars /\ GraphFairness

\* one run of one workflow graph whose LLM may request several tool calls
\* in one response
InitRound ==
    Idle /\ live = {1} /\ tracing = FALSE /\ msgs = {} /\ index = {}
    /\ llm = LLMResponses \cup ParallelResponses

SpecRound == InitRound /\ [][NextWorkflow]_vars

\* the RAGChatBot alone
SpecRag == InitWorkflow /\ [][NextRag]_vars

\* the simple backend alone
SpecSimple == InitWorkflow /\ [][NextSimple]_vars

\* a CheckpointManager whose container holds the checkpoints of two threads
InitCleanup ==
    /\ req = [r \in Reqs |-> NoReq]
    /\ pc = [r \in Reqs |-> "idle"]
    /\ loc = [r \in Reqs |-> InitLoc]
    /\ trace = [r \in Reqs |-> <<>>]
    /\ container = {}
    /\ clock = 0
    /\ current_session_id = "default_session"
    /\ graphs = [g \in Graphs |-> NoGraph]
    /\ wf_store = {}
    /\ setup_complete = FALSE
    /\ memory = <<>>
    /\ rag = [c \in Calls |-> NoCall]
    /\ cleanup = NoCleanup
    /\ live = {} /\ tracing = FALSE /\ msgs = {} /\ index = {} /\ llm = {}
    /\ \E n \in CheckpointCounts : checkpoints = Stored("t1", n) \cup Stored("t2", 3)

NextCleanup ==
    \/ cleanup_old_checkpoints
    \/ cleanup_query_items
    \/ cleanup_delete_item
    \/ cleanup_return

SpecCleanup == InitCleanup /\ [][NextCleanup]_vars


----------------------------------------------------------------------------
(* Vocabulary of the properties *)

\* the Turns persisted by request r
Turns(r) == {d \in container : d.origin = r /\ d.type \in TurnTypes}

\* the positions of trace[r] holding an entry ev with outcome ok
At(r, ev, ok) == {i \in 1..Len(trace[r]) : trace[r][i].ev = ev /\ trace[r][i].ok = ok}

Has(r, ev, ok) == At(r, ev, ok) # {}

\* the positions of the stream elements of /chat/stream with the given done flag
ChunksAt(r, done) ==
    {i \in 1..Len(trace[r]) : trace[r][i].ev = "chunk" /\ trace[r][i].done = done}

\* the concatenation of the fragments (done = false) among the first n entries
RECURSIVE Fragments(_, _)
Fragments(r, n) ==
    IF n = 0 THEN <<>>
    ELSE Fragments(r, n - 1) \o
         (IF trace[r][n].ev = "chunk" /\ ~trace[r][n].done THEN trace[r][n].text ELSE <<>>)

\* the session a request is made under: the id supplied, or one drawn for it
SessionsOf(r) ==
    IF req[r].session_id # NoSession THEN {req[r].session_id}
    ELSE {Uuid4(r, 1), Uuid4(r, 2)}

\* a non-streaming turn has returned text to its caller
Returned(r, text) ==
    \E i \in At(r, "return", TRUE) : trace[r][i].text = text

----------------------------------------------------------------------------
(* C1 *)

\* C1: session isolation on the per-request-session paths.  For any
\* interleaving of two concurrent turns through server.py /chat,
\* /chat/stream or RAGLangGraphBot.chat, every persisted Turn carries the
\* session id and the user message of the request that produced it, and
\* get_conversation_history(s, n) never lists a Turn of a request made
\* under another session id.
C1_SessionIsolation ==
    /\ \A d \in container :
          d.type \in TurnTypes =>
            /\ d.session_id \in SessionsOf(d.origin)
            /\ d.user_message = req[d.origin].message
    /\ \A s \in {d.session_id : d \in container} :
       \A type \in TurnTypes :
       \A n \in {1, 10} :
       \A h \in get_conversation_history(container, s, n, type) :
       \A i \in 1..Len(h) : s \in SessionsOf(h[i].origin)

\* two turns of different sessions and different messages are in flight
\* together, the first has written its Turn and the second is about to write
C1_Witness ==
    /\ pc[1] = "stream_yield_done"
    /\ pc[2] = "save_conversation"
    /\ loc[1].session_id # loc[2].session_id
    /\ req[1].message # req[2].message
    /\ Turns(1) # {}

----------------------------------------------------------------------------
(* C2 *)

\* C2: session isolation in TravelAssistantWorkflow.  The Turn the
\* store_history node of a graph writes is stored under the session id
\* that was passed to invoke_graph_workflow when that graph was created,
\* whatever invoke_graph_workflow calls were made in between.
C2_StoredUnderOwnSession ==
    \A t \in wf_store :
        graphs[t.graph].session_id # "" => t.session_id = graphs[t.graph].session_id

----------------------------------------------------------------------------
(* C3 *)

\* C3: a streaming turn (server.py /chat/stream, app.py /chat/stream) that
\* is cancelled before the last element of its stream is delivered has
\* persisted zero Turns.
C3_CancelledStreamPersistsNothing ==
    \A r \in Reqs : pc[r] = "cancelled" => Turns(r) = {}

----------------------------------------------------------------------------
(* C4 *)

\* C4: in server.py /chat/stream, store_message runs only after the
\* generator's fragments are exhausted and before the done element; no Turn
\* exists while fragments are still being yielded, and a persisted Turn
\* holds all the fragments delivered for its turn, never a strict prefix.
C4_PersistAfterComplete ==
    \A r \in Reqs :
        req[r].kind = "stream" =>
          /\ pc[r] \in {"stream_history", "stream_llm", "stream_exhausted"}
                => Turns(r) = {}
          /\ \A i \in At(r, "store", TRUE) \cup At(r, "store", FALSE) :
                /\ \E j \in 1..(i - 1) : trace[r][j].ev = "llm"
                /\ \A j \in ChunksAt(r, FALSE) : j < i
                /\ \A j \in ChunksAt(r, TRUE) : i < j
          /\ \A j \in ChunksAt(r, TRUE) :
                trace[r][j].text = <<>> => \E i \in 1..(j - 1) : trace[r][i].ev = "store"
          /\ \A d \in Turns(r) :
                d.assistant_response = Fragments(r, Len(trace[r]))

\* two fragments were delivered, then the Turn holding both was written and
\* the done element is still to come
C4_Witness ==
    \E r \in Reqs :
        /\ req[r].kind = "stream"
        /\ pc[r] = "stream_yield_done"
        /\ Cardinality(ChunksAt(r, FALSE)) >= 2
        /\ Turns(r) # {}

----------------------------------------------------------------------------
(* C5 *)

\* a store access of the turn failed
StoreFailed(r) ==
    \/ Has(r, "new_session", FALSE)
    \/ Has(r, "setup", FALSE)
    \/ Has(r, "history", FALSE)
    \/ Has(r, "store", FALSE)

NonStreaming == {"chat", "app_chat"}

\* C5: when the generator fails in a turn of server.py /chat or of
\* RAGLangGraphBot.chat (and the store works), the apology is returned and
\* exactly one Turn is persisted for the turn, whose assistant_response is
\* the apology.
C5_GenerationFailureFallback ==
    \A r \in Reqs :
        (/\ req[r].kind \in NonStreaming
         /\ pc[r] = "done"
         /\ Has(r, "llm", FALSE)
         /\ ~StoreFailed(r))
        => /\ Returned(r, Apology)
           /\ \E d \in Turns(r) :
                 Turns(r) = {d} /\ d.assistant_response = Apology

----------------------------------------------------------------------------
(* C6 *)

\* C6: in RAGLangGraphBot a message matching the greeting word list issues
\* no document-search call in the workflow, is answered by the canned
\* greeting, and its Turn records empty search_results.
C6_GreetingSkipsRetrieval ==
    \A r \in Reqs :
        (req[r].kind \in {"app_chat", "app_stream"} /\ is_greeting(req[r].message))
        => /\ ~Has(r, "search", TRUE)
           /\ ~Has(r, "search", FALSE)
           /\ \A d \in Turns(r) :
                 d.search_results = <<>> /\ d.assistant_response = GreetingResponse
           /\ (pc[r] = "done" /\ req[r].kind = "app_chat" /\ ~Has(r, "setup", FALSE))
                 => Returned(r, GreetingResponse)

----------------------------------------------------------------------------
(* C7 *)

\* C7: a turn of app.py /chat or server.py /chat whose message is empty
\* after trimming is rejected: neither retrieval nor generation runs, no
\* Turn is persisted and no response is returned for it.
C7_EmptyInputRejected ==
    \A r \in Reqs :
        (req[r].kind \in NonStreaming /\ Strip(req[r].message) = <<>>)
        => /\ \A ok \in BOOLEAN : ~Has(r, "search", ok) /\ ~Has(r, "llm", ok)
           /\ Turns(r) = {}
           /\ ~Has(r, "return", TRUE)

----------------------------------------------------------------------------
(* C8 *)

\* C8: a turn of RAGLangGraphBot.chat or server.py /chat in which a store
\* access (set-up, history read, turn write) fails while retrieval and
\* generation do not fail still returns its answer: not the apology, and
\* the generated answer when the LLM was called.
C8_StoreFailureNonFatal ==
    \A r \in Reqs :
        (/\ req[r].kind \in NonStreaming
         /\ pc[r] = "done"
         /\ StoreFailed(r)
         /\ ~Has(r, "search", FALSE)
         /\ ~Has(r, "llm", FALSE))
        => /\ Has(r, "return", TRUE)
           /\ ~Returned(r, Apology)
           /\ Has(r, "llm", TRUE) => Returned(r, LLMAnswer)

----------------------------------------------------------------------------
(* C9 *)

\* the last entry of trace[r] is a failed search of the turn
SearchJustFailed(r) ==
    /\ trace[r] # <<>>
    /\ trace[r][Len(trace[r])] = Ev("search", FALSE, <<>>)

----------------------------------------------------------------------------
(* C10 *)

\* C10: the chat operation (RAGChatBot.get_response, server.py /chat,
\* RAGLangGraphBot.chat) answers a non-empty request with non-empty text
\* that does not carry the text of the underlying exception.
C10_AlwaysSomeText ==
    /\ \A c \in Calls :
          rag[c].pc \in {"done", "failed"}
            => rag[c].response # <<>> /\ ~Contains(rag[c].response, ExcText)
    /\ \A r \in Reqs :
          (/\ req[r].kind \in NonStreaming
           /\ pc[r] = "done"
           /\ Strip(req[r].message) # <<>>)
          => \E i \in At(r, "return", TRUE) :
                trace[r][i].text # <<>> /\ ~Contains(trace[r][i].text, ExcText)

----------------------------------------------------------------------------
(* C11 *)

\* the number of times the tools node has run in graph g: its results
\* follow the AI message that requested them
ToolRounds(g) ==
    Cardinality({i \in 2..Len(graphs[g].messages) :
                   /\ graphs[g].messages[i].type = "tool"
                   /\ graphs[g].messages[i - 1].type = "ai"})

\* the tools node runs at most once per run
AtMostOneRetrieval == \A g \in Graphs : ToolRounds(g) <= 1

\* final_model is followed by store_history and store_history by END (or
\* the node raises)
FinalModelThenStore ==
    \A g \in Graphs :
        /\ graphs[g].node = "final_model"
              => graphs'[g].node \in {"final_model", "store_history", "failed"}
        /\ graphs[g].node = "store_history"
              => graphs'[g].node \in {"store_history", "end"}

----------------------------------------------------------------------------
(* C12 *)

\* the state of the agentic machine a node of the graph stands for
AgenticState(node) ==
    CASE node \in {"none", "compiled"}    -> "start"
      [] node = "brain"                   -> "awaiting_tool_decision"
      [] node = "tools"                   -> "retrieving"
      [] node = "final_model"             -> "finalizing"
      [] node \in {"store_history", "end"} -> "done"
      [] node = "failed"                  -> "fail"

\* the transitions of the agentic machine; fail is reachable from any step
AgenticStep(s, t, tool_requested) ==
    \/ s = t
    \/ s = "start" /\ t = "awaiting_tool_decision"
    \/ s = "awaiting_tool_decision" /\ t = "retrieving" /\ tool_requested
    \/ s = "awaiting_tool_decision" /\ t = "done" /\ ~tool_requested
    \/ s = "retrieving" /\ t = "finalizing"
    \/ s = "finalizing" /\ t = "done"
    \/ s \notin {"start", "done", "fail"} /\ t = "fail"

\* the last message of the run of g requests a tool call
ToolRequested(g) ==
    LET messages == graphs'[g].messages
    IN  messages # <<>> /\ messages[Len(messages)].tool_calls > 0

\* C12: under the mapping brain = awaiting_tool_decision, tools =
\* retrieving, final_model = finalizing, store_history / END = done, every
\* step of the graph is a transition of the agentic machine: brain goes to
\* tools exactly when its response requests a tool call and is final
\* otherwise, and tools is always followed by final_model.
C12_GraphRefinesAgenticMachine ==
    [][\A g \in Graphs :
         AgenticStep(AgenticState(graphs[g].node), AgenticState(graphs'[g].node),
                     ToolRequested(g))]_vars

\* a run stands at final_model with the result of the tools node as its
\* last message
C12_Witness ==
    \E g \in Graphs :
        /\ graphs[g].node = "final_model"
        /\ graphs[g].messages[Len(graphs[g].messages)].type = "tool"

----------------------------------------------------------------------------
(* C13 *)

\* the k-th smallest element of a set of positions
Nth(S, k) == CHOOSE i \in S : Cardinality({j \in S : j < i}) = k - 1

\* the positions of a marker in a context
PositionsOf(context, marker) == {i \in 1..Len(context) : context[i] = marker}

\* the passages a context holds: each one opens with "Document: "
PassageCount(context) == Cardinality(PositionsOf(context, "Document: "))

\* the title rendered for the k-th passage of a context
PassageTitle(context, k) ==
    <<context[Nth(PositionsOf(context, "Document: "), k) + 1]>>

\* the length of the content excerpt rendered for the k-th passage: from
\* "Content: " to the separator of the next passage or the end
ExcerptLen(context, k) ==
    LET first == Nth(PositionsOf(context, "Content: "), k) + 1
        last  == IF k < PassageCount(context)
                 THEN Nth(PositionsOf(context, "---"), k) - 3
                 ELSE Len(context)
    IN  last - first + 1

\* the context of request r holds min(n, 4) passages in the order of its
\* n search results
PassagesInOrder(r) ==
    LET results == loc[r].search_results
        context == loc[r].context
    IN  /\ PassageCount(context) = Min(Len(results), 4)
        /\ \A k \in 1..PassageCount(context) :
              PassageTitle(context, k) = results[k].title

\* request r stands between _search_documents and _generate_response
Assembled(r) == pc[r] = "generate_response" /\ req[r].kind = "app_chat"

\* C13 as stated: for any list of n search results the context of
\* _search_documents holds exactly min(n, 4) passages in the order
\* returned by the retriever, and the content excerpt rendered for each
\* passage is at most 800 characters long.
C13_ContextBounds ==
    \A r \in Reqs :
        Assembled(r) =>
            /\ PassagesInOrder(r)
            /\ \A k \in 1..PassageCount(loc[r].context) :
                  ExcerptLen(loc[r].context, k) <= 800

\* C13 amended: for any list of n search results the context holds
\* exactly min(n, 4) passages in the order returned by the retriever; the
\* excerpt rendered for a passage is the content itself when that has at
\* most 800 characters, and its first 800 characters followed by "..."
\* (803 characters) when it is longer.
C13_ContextBoundsWithEllipsis ==
    \A r \in Reqs :
        Assembled(r) =>
            /\ PassagesInOrder(r)
            /\ \A k \in 1..PassageCount(loc[r].context) :
                  LET n == Len(loc[r].search_results[k].content)
                  IN  ExcerptLen(loc[r].context, k) = IF n > 800 THEN 803 ELSE n

\* five results, the first with a content of more than 800 characters and
\* the last with another title than the fourth, have been assembled
C13_Witness ==
    \E r \in Reqs :
        /\ Assembled(r)
        /\ Len(loc[r].search_results) = 5
        /\ Len(loc[r].search_results[1].content) > 800
        /\ loc[r].search_results[5].title # loc[r].search_results[4].title

----------------------------------------------------------------------------
(* C14 *)

\* the turn of r has passed its generation step with zero passages retrieved
\* for a message that is not a greeting
PastGenerationWithoutPassages(r) ==
    /\ req[r].kind \in NonStreaming
    /\ pc[r] \in {"save_conversation", "chat_store"}
    /\ ~is_greeting(req[r].message)
    /\ loc[r].search_results = <<>>

\* C14: when retrieval yields zero passages for a message that is not a
\* greeting, the context is empty and the turn still proceeds to answer
\* generation by the LLM, which has been called by the time the turn
\* persists its answer (RAGLangGraphBot.chat; server.py /chat).
C14_ZeroPassagesStillGenerate ==
    \A r \in Reqs :
        PastGenerationWithoutPassages(r) =>
            /\ loc[r].context = <<>>
            /\ Has(r, "llm", TRUE) \/ Has(r, "llm", FALSE)

----------------------------------------------------------------------------
(* C15 *)

\* the Turns of a session and type the container holds
TurnsOfSession(session_id, type) ==
    {d \in container : d.session_id = session_id /\ d.type = type}

\* h lists up to limit Turns of the session and type, which are Turns with
\* the greatest timestamps of the session, oldest first
MostRecentOldestFirst(h, session_id, limit, type) ==
    LET stored == TurnsOfSession(session_id, type)
        listed == {h[i] : i \in 1..Len(h)}
    IN  /\ Len(h) = Min(limit, Cardinality(stored))
        /\ listed \subseteq stored
        /\ Cardinality(listed) = Len(h)
        /\ \A d \in stored \ listed : \A e \in listed : d.timestamp <= e.timestamp
        /\ \A i, j \in 1..Len(h) : i < j => h[i].timestamp <= h[j].timestamp

\* the history read of request r has completed and its result is at hand
HistoryRead(r) ==
    /\ Has(r, "history", TRUE)
    /\ \/ req[r].kind = "app_history" /\ pc[r] = "history_return"
       \/ req[r].kind = "chat" /\ pc[r] = "chat_generate"

\* C15: the list a successful get_conversation_history(session_id, limit)
\* returns (CosmosDBManager and ChatHistoryManager), for any stored
\* contents, holds at most limit Turns, all of the given session and of
\* the manager's turn type, which are Turns with the greatest timestamps
\* of that session, in non-decreasing timestamp order.
C15_HistoryMostRecentOldestFirst ==
    \A r \in Reqs :
        HistoryRead(r) =>
            IF req[r].kind = "app_history"
            THEN MostRecentOldestFirst(loc[r].conversation_history, loc[r].session_id,
                                       loc[r].limit, "conversation_turn")
            ELSE MostRecentOldestFirst(loc[r].conversation_history, loc[r].session_id,
                                       5, "conversation")

\* a history of two Turns has been returned for a session that holds three,
\* two of them with the same timestamp and one older
C15_Witness ==
    \E r \in Reqs :
        /\ HistoryRead(r)
        /\ req[r].kind = "app_history"
        /\ loc[r].limit = 2
        /\ Len(loc[r].conversation_history) = 2
        /\ Cardinality(TurnsOfSession(loc[r].session_id, "conversation_turn")) = 3
        /\ \E d \in TurnsOfSession(loc[r].session_id, "conversation_turn") :
              d.timestamp < loc[r].conversation_history[1].timestamp

----------------------------------------------------------------------------
(* C16 *)

\* the Turns this step has written
Written == {d \in container' \ container : d.type \in TurnTypes}

\* the Turns of the session and type of d the container holds after this step
SessionAfter(d) ==
    {e \in container' : e.session_id = d.session_id /\ e.type = d.type}

\* C16: when save_conversation(s, u, a) or store_message(s, u, a) has
\* returned, the get_conversation_history(s, 1) that follows returns one
\* Turn, with user_message u and assistant_response a, whatever Turns the
\* session holds (checked for sessions whose Turns all differ in their
\* timestamps).
C16_RoundTrip ==
    [][\A d \in Written :
         (\A e \in SessionAfter(d) \ {d} : e.timestamp # d.timestamp)
            => \A h \in get_conversation_history(container', d.session_id, 1, d.type) :
                  /\ Len(h) = 1
                  /\ h[1].user_message = d.user_message
                  /\ h[1].assistant_response = d.assistant_response]_vars

----------------------------------------------------------------------------
(* C17 *)

\* the position of Turn d in the list h
PositionIn(h, d) == CHOOSE i \in 1..Len(h) : h[i] = d

\* C17: when the save of a Turn completes after the save of another Turn of
\* the same session, get_conversation_history lists it after that Turn
\* (checked for Turns of different timestamps).
C17_ListedInCompletionOrder ==
    [][\A d2 \in Written :
         \A d1 \in SessionAfter(d2) \ {d2} :
            d1.timestamp # d2.timestamp
               => \A h \in get_conversation_history(container', d2.session_id, 10, d2.type) :
                     PositionIn(h, d1) < PositionIn(h, d2)]_vars

----------------------------------------------------------------------------
(* C18 *)

\* the elements of the stream delivered for request r, in order
StreamOf(r) == SelectSeq(trace[r], LAMBDA e : e.ev = "chunk")

\* the stream of server.py /chat/stream for r has ended
StreamEnded(r) == req[r].kind = "stream" /\ pc[r] = "done"

\* one element with done=true, the last one; the elements before it are
\* fragments that are not empty
OneDoneElementLast(s) ==
    /\ s # <<>>
    /\ s[Len(s)].done
    /\ \A i \in 1..(Len(s) - 1) : ~s[i].done /\ s[i].text # <<>>

----------------------------------------------------------------------------
(* C19 *)

\* the texts delivered to the caller of a turn that has run to completion:
\* the response returned, the concatenation of the fragments, or the
\* final_response element
Delivered(r) ==
    CASE req[r].kind \in NonStreaming ->
            {trace[r][i].text : i \in At(r, "return", TRUE)}
      [] req[r].kind = "stream" ->
            IF \E i \in ChunksAt(r, TRUE) : trace[r][i].text = <<>>
            THEN {Fragments(r, Len(trace[r]))} ELSE {}
      [] req[r].kind = "app_stream" ->
            {trace[r][i].text : i \in At(r, "final_response", TRUE)}
      [] OTHER -> {}

\* the turn of r has run to completion
Completed(r) == pc[r] = "done" /\ Delivered(r) # {}

\* C19: a turn that runs to completion (the store working) has persisted
\* exactly one Turn, through the non-streaming and through the streaming
\* endpoint of server.py and of app.py, and the assistant_response of that
\* Turn is the full text delivered to the caller.
C19_OneTurnPerCompletedTurn ==
    \A r \in Reqs :
        (Completed(r) /\ ~StoreFailed(r)) =>
            /\ Cardinality(Turns(r)) = 1
            /\ \A d \in Turns(r) : d.assistant_response \in Delivered(r)

----------------------------------------------------------------------------
(* C20 *)

\* the turn of r through server.py /chat has read its history and the
\* history is with the generation call or has been used by it
WindowSupplied(r) ==
    /\ req[r].kind = "chat"
    /\ Has(r, "history", TRUE)
    /\ pc[r] \in {"chat_generate", "chat_store"}

\* C20: the history server.py /chat supplies to generation holds at most 5
\* Turns, which are the most recent Turns of the session of the turn, oldest
\* first; it holds no Turn of another session and not the Turn the turn
\* itself produces.
C20_BoundedWindow ==
    \A r \in Reqs :
        WindowSupplied(r) =>
            LET window == loc[r].conversation_history
            IN  /\ Len(window) <= 5
                /\ MostRecentOldestFirst(window, loc[r].session_id, 5, "conversation")
                /\ \A i \in 1..Len(window) :
                      /\ window[i].session_id = req[r].session_id
                      /\ window[i].origin # r

\* a turn of a session that holds six Turns is at its generation call with
\* a history of five
C20_Witness ==
    \E r \in Reqs :
        /\ WindowSupplied(r)
        /\ Cardinality(TurnsOfSession(loc[r].session_id, "conversation")) = 6
        /\ Len(loc[r].conversation_history) = 5

----------------------------------------------------------------------------
(* C21 *)

\* the events of the response stream of app.py /chat/stream, as delivered
EventsOf(r) ==
    SelectSeq(trace[r],
              LAMBDA e : e.ev \in {"session_id", "status", "search_results",
                                   "partial_response", "final_response", "error"})

\* the place of an event in the success sequence; 7 is the error event
Rank(e) ==
    CASE e.ev = "session_id"       -> 0
      [] e.ev = "status" /\ e.text = <<"searching">>  -> 1
      [] e.ev = "search_results"   -> 2
      [] e.ev = "status" /\ e.text = <<"generating">> -> 3
      [] e.ev = "partial_response" -> 4
      [] e.ev = "final_response"   -> 5
      [] e.ev = "status" /\ e.text = <<"completed">>  -> 6
      [] OTHER                     -> 7

\* the steps of the success sequence, and the step to the error event
EventSteps ==
    {<<0, 1>>, <<1, 2>>, <<2, 3>>, <<3, 4>>, <<3, 5>>, <<4, 4>>, <<4, 5>>, <<5, 6>>}
    \cup {<<a, 7>> : a \in 0..6}

\* text is prev extended by exactly one word (prev = "" for the first one)
ExtendsByOneWord(prev, text) ==
    IF prev = <<>>
    THEN Len(Split(text)) = 1 /\ text = Split(text)[1]
    ELSE /\ Len(text) > Len(prev) + 1
         /\ SubSeq(text, 1, Len(prev) + 1) = prev \o <<" ">>
         /\ Len(Split(SubSeq(text, Len(prev) + 2, Len(text)))) = 1
         /\ SubSeq(text, Len(prev) + 2, Len(text))
              = Split(SubSeq(text, Len(prev) + 2, Len(text)))[1]

\* s is the beginning of a success sequence or ends with its one error event
WellOrdered(s, supplied) ==
    /\ s # <<>> => Rank(s[1]) \in (IF supplied THEN {1, 7} ELSE {0, 7})
    /\ \A i \in 2..Len(s) : <<Rank(s[i - 1]), Rank(s[i])>> \in EventSteps
    /\ \A i \in 1..Len(s) :
         Rank(s[i]) = 4 =>
           ExtendsByOneWord(IF i > 1 /\ Rank(s[i - 1]) = 4 THEN s[i - 1].text ELSE <<>>,
                            s[i].text)

\* C21: event order of rag-langraph-bot /chat/stream.  At every moment the
\* events delivered so far are the beginning of a success sequence -
\* session_id (only when the request supplied no session id), status
\* searching, search_results, status generating, partial_response events
\* each extending the previous one by exactly one word, final_response,
\* status completed - or end with a single error event; a stream that has
\* run to its end ends with status completed or with the error event.
C21_StreamEventOrder ==
    \A r \in Reqs :
        req[r].kind = "app_stream" =>
          /\ WellOrdered(EventsOf(r), req[r].session_id # NoSession)
          /\ pc[r] = "done" =>
                Rank(EventsOf(r)[Len(EventsOf(r))]) \in {6, 7}

\* a stream of a request without session id has run to its end with two
\* partial responses
C21_Witness ==
    /\ req[1].kind = "app_stream"
    /\ req[1].session_id = NoSession
    /\ pc[1] = "done"
    /\ Cardinality({i \in 1..Len(trace[1]) : trace[1][i].ev = "partial_response"}) >= 2

----------------------------------------------------------------------------
(* C22 *)

\* POST /chat of backend.py, with the chatbot initialized, has answered a
\* user_message that is empty after strip()
EmptyMessageAnswered(c) ==
    /\ rag[c].endpoint
    /\ rag[c].pc = "done"
    /\ rag[c].user_input = <<>>
    /\ rag[c].status # 503

\* C22: backend.py POST /chat answers a user_message that is empty after
\* strip() with HTTP status 400 and detail "User message cannot be empty";
\* get_chatbot_response is not called for it (no chat history was loaded and
\* no response generated).
C22_EmptyMessageIs400 ==
    \A c \in Calls :
        EmptyMessageAnswered(c) =>
          /\ rag[c].status = 400
          /\ rag[c].response = <<"User message cannot be empty">>
          /\ rag[c].chat_history = <<>>

----------------------------------------------------------------------------
(* C23 *)

\* the contents of the messages of a type in the run of graph g
ContentsOf(g, type) ==
    {graphs[g].messages[i].content :
       i \in {j \in 1..Len(graphs[g].messages) : graphs[g].messages[j].type = type}}

\* the run of g has reached END and the store did not fail
TurnCompleted(g) == graphs[g].node = "end" /\ graphs[g].store_message # "raised"

\* C23: for each completed turn the store_history node stores the pair
\* (human message of the turn, AI answer generated in the turn); it never
\* skips storing a completed turn, including when the last AI message of the
\* turn has empty content.
C23_EveryCompletedTurnStored ==
    \A g \in Graphs :
        TurnCompleted(g) =>
          \E t \in wf_store :
              /\ t.graph = g
              /\ t.user_message \in ContentsOf(g, "human")
              /\ t.assistant_response \in ContentsOf(g, "ai")

----------------------------------------------------------------------------
(* C24 *)

\* the window call_model or call_final_model is about to pass to the LLM
Window(g) == filter_messages(graphs[g].messages)

\* the tool message at position i of window w answers a tool call of an AI
\* message that precedes it in w with only tool messages in between
ToolCallInWindow(w, i) ==
    \E j \in 1..(i - 1) :
        /\ w[j].type = "ai"
        /\ w[j].tool_calls > 0
        /\ \A k \in (j + 1)..(i - 1) : w[k].type = "tool"

\* C24: whenever call_model or call_final_model is about to run, the window
\* it passes to the LLM (the last 5 messages of the state) contains the
\* human message of the turn, and every tool-result message in the window is
\* preceded inside the window by the AI message that issued its tool call -
\* with one or several tool calls in a round.
C24_WindowWellFormed ==
    \A g \in Graphs :
        graphs[g].node \in {"brain", "final_model"} =>
          /\ \E i \in 1..Len(Window(g)) : Window(g)[i].type = "human"
          /\ \A i \in 1..Len(Window(g)) :
                Window(g)[i].type = "tool" => ToolCallInWindow(Window(g), i)

----------------------------------------------------------------------------
(* C25 *)

\* server.py /chat or /chat/stream is about to call the LLM
ContextHandedOver(r) ==
    /\ req[r].kind \in {"chat", "stream"}
    /\ pc[r] \in {"chat_generate", "stream_llm"}
    /\ Has(r, "search", TRUE) \/ Has(r, "search", FALSE)

\* the text semantic_search produced for the message of the turn
SearchText(r) ==
    trace[r][CHOOSE i \in 1..Len(trace[r]) : trace[r][i].ev = "search"].text

\* C25: in server.py /chat and /chat/stream, whenever semantic_search
\* produces non-empty text for the message, the context handed to the LLM is
\* "Relevant travel information:" followed by that text; the context is empty
\* only when the search found nothing or the search backend failed.
C25_ContextReachesGenerator ==
    \A r \in Reqs :
        ContextHandedOver(r) =>
          IF SearchText(r) # <<>>
          THEN loc[r].context = <<"Relevant travel information:", "\n">> \o SearchText(r)
                                \o <<"\n", "\n">>
          ELSE loc[r].context = <<>>

----------------------------------------------------------------------------
(* C26 *)

\* the call c, begun before a clear_memory that ran while it awaited the
\* chain, returns in this step
ReturnsAfterClear(c) ==
    /\ rag[c].pc = "ainvoke"
    /\ rag[c].cleared
    /\ rag'[c].pc # "ainvoke"

\* C26: clearing memory in rag-cosmos-bot.  No message of a turn that began
\* before clear_memory ran is added to the memory afterwards, including a
\* turn that was still awaiting the chain when the clear ran.
C26_NothingAddedAfterClear ==
    [][\A c \in Calls : ReturnsAfterClear(c) => memory' = memory]_vars

----------------------------------------------------------------------------
(* C27 *)

\* the memory is a sequence of (user, assistant) pairs
PairsInMemory ==
    /\ Len(memory) % 2 = 0
    /\ \A i \in 1..Len(memory) :
         memory[i].type = (IF i % 2 = 1 THEN "human" ELSE "ai")

\* the call c returns its response in this step
Succeeds(c) == rag[c].pc \in {"ainvoke", "astream"} /\ rag'[c].pc = "done"

\* the chain of the call c fails in this step
Fails(c) == rag[c].pc \in {"ainvoke", "astream"} /\ rag'[c].pc = "failed"

\* a successful call appends the pair (its input, the response it returns),
\* a failing call returns an error string and leaves the memory unchanged,
\* and nothing else adds to the memory (clear_memory empties it)
OnePairPerSuccess ==
    /\ \A c \in Calls :
         Succeeds(c) => memory' = memory \o <<HumanMessage(rag[c].user_input),
                                              AIMessage(rag'[c].response, 0)>>
    /\ \A c \in Calls : Fails(c) => memory' = memory /\ rag'[c].response # <<>>
    /\ (\A c \in Calls : ~Succeeds(c)) => memory' \in {memory, <<>>}

----------------------------------------------------------------------------
(* C28 *)

\* the positions of a handler inside RAGLangGraphBot.chat
InChat ==
    {"bot_setup", "extract_query", "search_documents", "generate_response",
     "save_conversation", "create_item"}

\* a step of chat leaves the list its caller passed as it was
ChatLeavesHistoryUnchanged ==
    \A r \in Reqs :
        pc[r] \in InChat => loc'[r].conversation = loc[r].conversation

\* between turns, after n completed turns, the conversation list of the
\* console loop holds 2n messages: user, assistant, user, assistant, ...
ConversationAlternates ==
    \A r \in Reqs :
        (req[r].kind = "console" /\ pc[r] = "input") =>
          /\ Len(loc[r].conversation) = 2 * loc[r].turns
          /\ \A i \in 1..Len(loc[r].conversation) :
                loc[r].conversation[i].type = (IF i % 2 = 1 THEN "human" ELSE "ai")

\* C28: RAGLangGraphBot.chat leaves the conversation_history list its caller
\* supplies unchanged; consequently, in the console loop of chatbot.py, after
\* n completed turns the conversation list holds exactly 2n messages that
\* alternate user message, assistant message.
C28_HistoryUnchanged == [][ChatLeavesHistoryUnchanged]_vars /\ []ConversationAlternates

----------------------------------------------------------------------------
(* C29 *)

\* the generate_response node of request r runs in this step
GenerateStep(r) == pc[r] = "generate_response" /\ pc'[r] # "generate_response"

\* the events the step adds to the trace
EventsAdded(r) == SubSeq(trace'[r], Len(trace[r]) + 1, Len(trace'[r]))

\* chain.ainvoke is called in this step, and it raises
LLMInvoked(r) == \E i \in 1..Len(EventsAdded(r)) : EventsAdded(r)[i].ev = "llm"
LLMRaised(r) ==
    \E i \in 1..Len(EventsAdded(r)) :
        EventsAdded(r)[i].ev = "llm" /\ ~EventsAdded(r)[i].ok

HasGreetingWord(query) ==
    \E k \in 1..Len(greeting_words) : Contains(Lower(query), greeting_words[k])
SomeAboveThreshold(results) == \E i \in 1..Len(results) : results[i].score > 10

\* the LLM is invoked exactly when there is no greeting word, a result and
\* a result above the threshold; otherwise the canned message of the first
\* case that applies is the response
DecisionTable(r) ==
    LET query   == loc[r].user_query
        results == loc[r].search_results
    IN  /\ LLMInvoked(r) <=>
              (~HasGreetingWord(query) /\ results # <<>> /\ SomeAboveThreshold(results))
        /\ HasGreetingWord(query) => loc'[r].response = GreetingResponse
        /\ (~HasGreetingWord(query) /\ results = <<>>)
              => loc'[r].response = NoResultsResponse(query)
        /\ (~HasGreetingWord(query) /\ results # <<>> /\ ~SomeAboveThreshold(results))
              => loc'[r].response = NotRelevantResponse(query)

\* one AI message carrying the response is appended to the state and the
\* save_conversation node is next
OneMessageThenSave(r) ==
    /\ loc'[r].messages = Append(loc[r].messages, AIMessage(loc'[r].response, 0))
    /\ pc'[r] = "save_conversation"

\* no message is appended and chat returns without the save_conversation node
NoMessageNoSave(r) ==
    /\ loc'[r].messages = loc[r].messages
    /\ pc'[r] = "after_chat"

----------------------------------------------------------------------------
(* C30 *)

\* the cleanup call has returned and nothing it called raised
CleanupCompleted == cleanup.pc = "done" /\ ~cleanup.failed

\* the checkpoints of the thread before the call that no more than n - 1
\* others of the thread were later than
LatestOf(docs, n) ==
    {d \in docs : Cardinality({e \in docs : e.timestamp > d.timestamp}) < n}

\* C30: CheckpointManager.cleanup_old_checkpoints(thread_id, keep_latest=N):
\* after the call completes without error, at most N checkpoints remain for
\* thread_id, the remaining ones are those with the latest timestamps, and
\* the checkpoints of every other thread are unchanged, for any number of
\* checkpoints stored for the thread before the call.
C30_CleanupKeepsLatest ==
    CleanupCompleted =>
      LET mine == OfThread(checkpoints, cleanup.thread_id)
          was  == OfThread(cleanup.before, cleanup.thread_id)
      IN  /\ Cardinality(mine) <= cleanup.keep_latest
          /\ mine = LatestOf(was, cleanup.keep_latest)
          /\ checkpoints \ mine = cleanup.before \ was

====
